---- MODULE Spec2Model ----
(***************************************************************************)
(* Ordered-map engine of tony/learning-dsa: the search trees under         *)
(* src/src/algorithms/bst.  Every tree is modelled as the Python code      *)
(* builds it.  Trees without parent pointers (AVL, treap, size-balanced,   *)
(* plain BST, B-tree, 2-3 tree) are nested records, the absent subtree     *)
(* being None; trees with parent pointers (red-black, splay, the BST of    *)
(* chapter 2) live in an arena of nodes addressed by index, index 0 being  *)
(* None.                                                                   *)
(*                                                                         *)
(* A tree instance commits to one strategy for its lifetime, so each       *)
(* strategy has its own specification (SpecAVL, SpecRB, ...) over the      *)
(* shared Init; the variables of the other strategies stay untouched.      *)
(* SpecSearch and SpecBalanced range over several strategies, every run    *)
(* working on one of them.  Searches that only read the tree are actions   *)
(* of SpecSearch alone: they change no tree, so the specifications about   *)
(* the shape of a tree leave them out.                                     *)
(***************************************************************************)
EXTENDS Integers, Sequences, FiniteSets, TLC

VARIABLES
    avl_root,       \* root returned by the last insert_avl call
    avl_inserted,   \* history: how often each key was passed to insert_avl
    avl_last,       \* history: the last insert_avl call: its key, whether and where it rotated
    bst_root,       \* BST.root of the plain BST
    bst_live,       \* history: keys inserted and not deleted afterwards
    bst_hist,       \* history: number and kinds of the insert / delete calls made
    bst_search,     \* history: the last search call since the tree last changed, and its answer
    pbst,           \* the arena and BST.root of the BST with parent pointers
    pbst_search,    \* history: the last search_recursive / search_iterative call, and its answer
    rb,             \* the red-black arena and the root returned by the last insert_rb call
    rb_hist,        \* history: whether a key was inserted twice, how often each key was inserted
    bt_root,        \* root returned by the last btree_insert call
    bt_t,           \* the minimum degree t the caller passes to every btree_insert call
    bt_inserted,    \* history: how often each key was passed to btree_insert
    bt_search,      \* history: the last btree_search call since the last insert, and its answer
    treap_root,     \* root returned by the last insert_treap call
    treap_hist,     \* history: number of insert_treap calls, whether one rotated, the keys passed
    sb_root,        \* root returned by the last insert_sizebst call
    sb_ratio,       \* the ratio the caller passes to every insert_sizebst call
    sb_inserted,    \* history: how often each key was passed to insert_sizebst
    splay_tree,     \* the splay arena and the root returned by the last call
    splay_last,     \* history: the last call, its key, whether the key was present, the in-order before
    t23_root,       \* root returned by the last insert_23 call
    t23_inserted,   \* history: how often each key was passed to insert_23
    t23_failed,     \* whether an insert_23 call raised IndexError (the caller stops there)
    pq_root,        \* root of the priority-queue treap, as returned by the last call
    pq_last,        \* history: the last priority-queue call and the key it returned
    mg_left,        \* the left argument of the merge_treap call under study
    mg_right,       \* the right argument of the merge_treap call under study
    mg_out,         \* what that merge_treap call returned, once it has run
    splay_x,        \* the node a running splay(x) call is moving up, 0 when none runs
    splay_run       \* history: the call that ran splay last, the kind of its last loop iteration, x's depth before it

vars == <<avl_root, avl_inserted, avl_last, bst_root, bst_live, bst_hist, bst_search,
          pbst, pbst_search, rb, rb_hist, bt_root, bt_t, bt_inserted, bt_search,
          treap_root, treap_hist, sb_root, sb_ratio, sb_inserted, splay_tree, splay_last,
          t23_root, t23_inserted, t23_failed, pq_root, pq_last,
          mg_left, mg_right, mg_out, splay_x, splay_run>>

(***************************************************************************)
(* Bounds of the model.                                                    *)
(***************************************************************************)
AvlMaxKey == 7
AvlMaxInserts == 7
BstMaxKey == 5
BstMaxOps == 8
RbMaxKey == 4
RbMaxInserts == 8
BtMaxT == 3
BtMaxKey == 5
BtMaxInserts == 10
TreapMaxKey == 3
TreapMaxPriority == 3
TreapMaxInserts == 5
SbMaxKey == 7
SbMaxInserts == 7
SplayMaxKey == 4
SplayMaxInserts == 4
SplayLoopMaxKey == 2
SplayLoopMaxInserts == 4
PbMaxKey == 6
T23MaxKey == 6
SearchBtMaxInserts == 6
BalancedMaxInserts == 6
T23MaxInserts == 7
PqMaxKey == 3
PqMaxPriority == 3
PqMaxNodes == 4
MgMaxKey == 3
MgMaxPriority == 2
MgMaxNodes == 3

(* Smallest minimum degree of a B-tree. *)
BtMinT == 2

None == <<>>

Max(a, b) == IF a >= b THEN a ELSE b

Abs(a) == IF a >= 0 THEN a ELSE -a

EmptyBag(S) == [k \in S |-> 0]

BagSize(b) == LET RECURSIVE Sum(_)
                  Sum(S) == IF S = {} THEN 0
                            ELSE LET k == CHOOSE k \in S : TRUE
                                 IN b[k] + Sum(S \ {k})
              IN Sum(DOMAIN b)

(* In-order key sequence of a binary tree of nested records. *)
RECURSIVE InOrder(_)
InOrder(n) == IF n = None THEN <<>>
              ELSE InOrder(n.left) \o <<n.key>> \o InOrder(n.right)

(* Number of nodes of a binary tree of nested records. *)
RECURSIVE Size(_)
Size(n) == IF n = None THEN 0 ELSE 1 + Size(n.left) + Size(n.right)

(* In-order key sequence of the subtree of arena T rooted at n, looking at
   most fuel levels down. *)
RECURSIVE ArenaInOrder(_, _, _)
ArenaInOrder(T, n, fuel) ==
    IF n = 0 \/ fuel = 0 THEN <<>>
    ELSE ArenaInOrder(T, T.left[n], fuel - 1) \o <<T.key[n]>>
           \o ArenaInOrder(T, T.right[n], fuel - 1)

(* The set of subtrees (one per node) of a binary tree of nested records. *)
RECURSIVE Subtrees(_)
Subtrees(n) == IF n = None THEN {}
               ELSE {n} \cup Subtrees(n.left) \cup Subtrees(n.right)

(* True height: absent subtree 0, leaf 1. *)
RECURSIVE Height(_)
Height(n) == IF n = None THEN 0
             ELSE 1 + Max(Height(n.left), Height(n.right))

StrictlyAscending(s) == \A i \in 1..(Len(s) - 1) : s[i] < s[i + 1]

NonDecreasing(s) == \A i \in 1..(Len(s) - 1) : s[i] <= s[i + 1]

SeqToSet(s) == {s[i] : i \in 1..Len(s)}

CountIn(s, k) == Cardinality({i \in 1..Len(s) : s[i] = k})

(***************************************************************************)
(* AVL tree: 004_height_balanced_avl_trees_rotations_invariants.py         *)
(***************************************************************************)
AVLNode(key) == [key |-> key, left |-> None, right |-> None, height |-> 1]

get_height(node) == IF node = None THEN 0 ELSE node.height

get_balance(node) ==
    IF node = None THEN 0
    ELSE get_height(node.left) - get_height(node.right)

update_height(node) ==
    [node EXCEPT !.height = 1 + Max(get_height(node.left), get_height(node.right))]

(* rotate_left that leaves z's cached height as it was before the rotation. *)
avl_rotate_left_stale_height(z) ==
    LET y == z.right
    IN IF y = None THEN z
       ELSE update_height([y EXCEPT !.left = [z EXCEPT !.right = y.left]])

(* rotate_left that forgets to hand y's left subtree (T2) over to z. *)
avl_rotate_left_drops_t2(z) ==
    LET y == z.right
    IN IF y = None THEN z
       ELSE LET z1 == update_height([z EXCEPT !.right = None])
            IN update_height([y EXCEPT !.left = z1])

avl_rotate_left(z) ==
    LET y == z.right
    IN IF y = None THEN z
       ELSE LET z1 == update_height([z EXCEPT !.right = y.left])
            IN update_height([y EXCEPT !.left = z1])

avl_rotate_right(z) ==
    LET y == z.left
    IN IF y = None THEN z
       ELSE LET z1 == update_height([z EXCEPT !.left = y.right])
            IN update_height([y EXCEPT !.right = z1])

(* avl_rebalance that already acts on a balance of +1 or -1. *)
avl_rebalance_eager(root, key) ==
    LET balance == get_balance(root)
    IN IF balance > 0 /\ root.left # None /\ key < root.left.key
         THEN avl_rotate_right(root)
       ELSE IF balance < 0 /\ root.right # None /\ key > root.right.key
         THEN avl_rotate_left(root)
       ELSE IF balance > 0 /\ root.left # None /\ key > root.left.key
         THEN avl_rotate_right([root EXCEPT !.left = avl_rotate_left(root.left)])
       ELSE IF balance < 0 /\ root.right # None /\ key < root.right.key
         THEN avl_rotate_left([root EXCEPT !.right = avl_rotate_right(root.right)])
       ELSE root

(* avl_rebalance with the inner rotation of both double-rotation cases left out. *)
avl_rebalance_single_only(root, key) ==
    LET balance == get_balance(root)
    IN IF balance > 1 /\ root.left # None /\ key < root.left.key
         THEN avl_rotate_right(root)
       ELSE IF balance < -1 /\ root.right # None /\ key > root.right.key
         THEN avl_rotate_left(root)
       ELSE IF balance > 1 /\ root.left # None /\ key > root.left.key
         THEN avl_rotate_right(root)
       ELSE IF balance < -1 /\ root.right # None /\ key < root.right.key
         THEN avl_rotate_left(root)
       ELSE root

(* The four rebalancing cases of insert_avl, in the order the code tests them. *)
avl_rebalance(root, key) ==
    LET balance == get_balance(root)
    IN IF balance > 1 /\ root.left # None /\ key < root.left.key
         THEN avl_rotate_right(root)
       ELSE IF balance < -1 /\ root.right # None /\ key > root.right.key
         THEN avl_rotate_left(root)
       ELSE IF balance > 1 /\ root.left # None /\ key > root.left.key
         THEN avl_rotate_right([root EXCEPT !.left = avl_rotate_left(root.left)])
       ELSE IF balance < -1 /\ root.right # None /\ key < root.right.key
         THEN avl_rotate_left([root EXCEPT !.right = avl_rotate_right(root.right)])
       ELSE root

RECURSIVE insert_avl(_, _)
insert_avl(root, key) ==
    IF root = None THEN AVLNode(key)
    ELSE LET placed == IF key < root.key
                         THEN [root EXCEPT !.left = insert_avl(root.left, key)]
                         ELSE [root EXCEPT !.right = insert_avl(root.right, key)]
         IN avl_rebalance(update_height(placed), key)

(* Placement alone: where insert_avl puts the key when no rotation fires. *)
RECURSIVE AvlPlaced(_, _)
AvlPlaced(root, key) ==
    IF root = None THEN AVLNode(key)
    ELSE update_height(IF key < root.key
                         THEN [root EXCEPT !.left = AvlPlaced(root.left, key)]
                         ELSE [root EXCEPT !.right = AvlPlaced(root.right, key)])

(* Which rebalancing the four cases of insert_avl perform on root, the node
   as it stands after the recursive insert and update_height: none, a single
   rotation ("left", "right") or a double one ("left_right": rotate_left on
   root.left, then rotate_right on root; "right_left": the mirror image). *)
avl_rebalancing_kind(root, key) ==
    LET result == avl_rebalance(root, key)
    IN IF result = root THEN "none"
       ELSE IF result = avl_rotate_right(root) THEN "right"
       ELSE IF result = avl_rotate_left(root) THEN "left"
       ELSE IF get_balance(root) > 0 THEN "left_right"
       ELSE "right_left"

(* The rebalancings of one insert_avl(root, key) call, deepest node first:
   the key of the node that rebalanced, the kind, the true height of its
   subtree before the call and of the subtree returned in its place. *)
RECURSIVE AvlRebalancings(_, _)
AvlRebalancings(root, key) ==
    IF root = None THEN <<>>
    ELSE LET below == IF key < root.key THEN AvlRebalancings(root.left, key)
                                        ELSE AvlRebalancings(root.right, key)
             placed == update_height(
                         IF key < root.key
                           THEN [root EXCEPT !.left = insert_avl(root.left, key)]
                           ELSE [root EXCEPT !.right = insert_avl(root.right, key)])
             kind == avl_rebalancing_kind(placed, key)
         IN IF kind = "none" THEN below
            ELSE Append(below, [at |-> root.key, kind |-> kind,
                                before |-> Height(root),
                                after |-> Height(avl_rebalance(placed, key))])

(***************************************************************************)
(* Plain BST: 001_bst_fundamentals.py                                      *)
(***************************************************************************)
BSTNode(key) == [key |-> key, left |-> None, right |-> None]

RECURSIVE _insert_recursive(_, _)
_insert_recursive(node, key) ==
    IF node = None THEN BSTNode(key)
    ELSE IF key < node.key
      THEN [node EXCEPT !.left = _insert_recursive(node.left, key)]
    ELSE IF key > node.key
      THEN [node EXCEPT !.right = _insert_recursive(node.right, key)]
    ELSE node

RECURSIVE _find_min(_)
_find_min(node) == IF node.left # None THEN _find_min(node.left) ELSE node

(* _delete_recursive whose two-children case copies the successor's key but
   leaves the successor in the right subtree. *)
RECURSIVE _delete_recursive_keep_successor(_, _)
_delete_recursive_keep_successor(node, key) ==
    IF node = None THEN None
    ELSE IF key < node.key
      THEN [node EXCEPT !.left = _delete_recursive_keep_successor(node.left, key)]
    ELSE IF key > node.key
      THEN [node EXCEPT !.right = _delete_recursive_keep_successor(node.right, key)]
    ELSE IF node.left = None /\ node.right = None THEN None
    ELSE IF node.left = None THEN node.right
    ELSE IF node.right = None THEN node.left
    ELSE [node EXCEPT !.key = _find_min(node.right).key]

(* _delete_recursive that returns a leaf unchanged instead of removing it. *)
RECURSIVE _delete_recursive_keep_leaf(_, _)
_delete_recursive_keep_leaf(node, key) ==
    IF node = None THEN None
    ELSE IF key < node.key
      THEN [node EXCEPT !.left = _delete_recursive_keep_leaf(node.left, key)]
    ELSE IF key > node.key
      THEN [node EXCEPT !.right = _delete_recursive_keep_leaf(node.right, key)]
    ELSE IF node.left = None /\ node.right = None THEN node
    ELSE IF node.left = None THEN node.right
    ELSE IF node.right = None THEN node.left
    ELSE LET successor == _find_min(node.right)
         IN [node EXCEPT !.key = successor.key,
                         !.right = _delete_recursive_keep_leaf(node.right, successor.key)]

RECURSIVE _delete_recursive(_, _)
_delete_recursive(node, key) ==
    IF node = None THEN None
    ELSE IF key < node.key
      THEN [node EXCEPT !.left = _delete_recursive(node.left, key)]
    ELSE IF key > node.key
      THEN [node EXCEPT !.right = _delete_recursive(node.right, key)]
    ELSE IF node.left = None /\ node.right = None THEN None
    ELSE IF node.left = None THEN node.right
    ELSE IF node.right = None THEN node.left
    ELSE LET successor == _find_min(node.right)
         IN [node EXCEPT !.key = successor.key,
                         !.right = _delete_recursive(node.right, successor.key)]

(* search that turns right for a smaller key and left for a larger one. *)
RECURSIVE search_wrong_turn(_, _)
search_wrong_turn(current, key) ==
    IF current = None THEN FALSE
    ELSE IF key = current.key THEN TRUE
    ELSE search_wrong_turn(IF key < current.key THEN current.right ELSE current.left, key)

(* BST.search: the while loop from current (self.root at the call). *)
RECURSIVE search(_, _)
search(current, key) ==
    IF current = None THEN FALSE
    ELSE IF key = current.key THEN TRUE
    ELSE search(IF key < current.key THEN current.left ELSE current.right, key)

in_order(root) == InOrder(root)

(***************************************************************************)
(* BST with parent pointers: 002_variations_handling_edge_cases.py         *)
(* The tree T is an arena like the red-black one: T.key, T.left, T.right   *)
(* and T.parent are indexed by node, 0 stands for None, T.root is          *)
(* BST.root.  Comparing two nodes (current == current.parent.right)        *)
(* compares their identities, here their indices.                          *)
(***************************************************************************)
PbEmpty == [key |-> <<>>, left |-> <<>>, right |-> <<>>, parent |-> <<>>, root |-> 0]

(* BSTNode(key, parent): allocates the next node of the arena. *)
ParentBSTNode(T, key, parent) ==
    [T EXCEPT !.key = Append(@, key), !.left = Append(@, 0),
              !.right = Append(@, 0), !.parent = Append(@, parent)]

(* The while loop of BST.insert: the node the loop leaves in parent, and
   whether it returned early on an equal key. *)
RECURSIVE pb_insert_walk(_, _, _, _)
pb_insert_walk(T, current, parent, key) ==
    IF current = 0 THEN [parent |-> parent, found |-> FALSE]
    ELSE IF key < T.key[current] THEN pb_insert_walk(T, T.left[current], current, key)
    ELSE IF key > T.key[current] THEN pb_insert_walk(T, T.right[current], current, key)
    ELSE [parent |-> current, found |-> TRUE]

(* BST.insert whose new node does not record its parent. *)
insert_no_parent(T, key) ==
    IF T.root = 0
      THEN [ParentBSTNode(T, key, 0) EXCEPT !.root = Len(T.key) + 1]
    ELSE LET w == pb_insert_walk(T, T.root, 0, key)
             new_node == Len(T.key) + 1
             T1 == ParentBSTNode(T, key, 0)
         IN IF w.found THEN T
            ELSE IF key < T.key[w.parent]
              THEN [T1 EXCEPT !.left[w.parent] = new_node]
            ELSE [T1 EXCEPT !.right[w.parent] = new_node]

(* BST.insert *)
insert(T, key) ==
    IF T.root = 0
      THEN [ParentBSTNode(T, key, 0) EXCEPT !.root = Len(T.key) + 1]
    ELSE LET w == pb_insert_walk(T, T.root, 0, key)
             new_node == Len(T.key) + 1
             T1 == ParentBSTNode(T, key, w.parent)
         IN IF w.found THEN T
            ELSE IF key < T.key[w.parent]
              THEN [T1 EXCEPT !.left[w.parent] = new_node]
            ELSE [T1 EXCEPT !.right[w.parent] = new_node]

RECURSIVE _search_recursive(_, _, _)
_search_recursive(T, node, key) ==
    IF node = 0 THEN FALSE
    ELSE IF T.key[node] = key THEN TRUE
    ELSE IF key < T.key[node] THEN _search_recursive(T, T.left[node], key)
    ELSE _search_recursive(T, T.right[node], key)

search_recursive(T, key) == _search_recursive(T, T.root, key)

(* The while loop of BST.search_iterative from current. *)
RECURSIVE pb_search_loop(_, _, _)
pb_search_loop(T, current, key) ==
    IF current = 0 THEN FALSE
    ELSE IF T.key[current] = key THEN TRUE
    ELSE pb_search_loop(T, IF key < T.key[current] THEN T.left[current]
                                                   ELSE T.right[current], key)

search_iterative(T, key) == pb_search_loop(T, T.root, key)

(* The while loop of BST.find_node from current: the node found, or 0. *)
RECURSIVE pb_find_loop(_, _, _)
pb_find_loop(T, current, key) ==
    IF current = 0 THEN 0
    ELSE IF T.key[current] = key THEN current
    ELSE pb_find_loop(T, IF key < T.key[current] THEN T.left[current]
                                                 ELSE T.right[current], key)

find_node(T, key) == pb_find_loop(T, T.root, key)

RECURSIVE _min_node_subtree(_, _)
_min_node_subtree(T, node) ==
    IF T.left[node] # 0 THEN _min_node_subtree(T, T.left[node]) ELSE node

RECURSIVE _max_node_subtree(_, _)
_max_node_subtree(T, node) ==
    IF T.right[node] # 0 THEN _max_node_subtree(T, T.right[node]) ELSE node

min_node(T) == IF T.root = 0 THEN 0 ELSE _min_node_subtree(T, T.root)

max_node(T) == IF T.root = 0 THEN 0 ELSE _max_node_subtree(T, T.root)

(* The upward loop of successor: climbs while current is a right child. *)
RECURSIVE pb_climb_from_right(_, _)
pb_climb_from_right(T, current) ==
    IF T.parent[current] # 0 /\ current = T.right[T.parent[current]]
      THEN pb_climb_from_right(T, T.parent[current])
      ELSE T.parent[current]

(* The upward loop of predecessor: climbs while current is a left child. *)
RECURSIVE pb_climb_from_left(_, _)
pb_climb_from_left(T, current) ==
    IF T.parent[current] # 0 /\ current = T.left[T.parent[current]]
      THEN pb_climb_from_left(T, T.parent[current])
      ELSE T.parent[current]

successor(T, node) ==
    IF T.right[node] # 0 THEN _min_node_subtree(T, T.right[node])
    ELSE pb_climb_from_right(T, node)

predecessor(T, node) ==
    IF T.left[node] # 0 THEN _max_node_subtree(T, T.left[node])
    ELSE pb_climb_from_left(T, node)

(***************************************************************************)
(* Red-black tree: 005_red_black_trees.py                                  *)
(* The tree T is an arena: T.key, T.color, T.left, T.right and T.parent    *)
(* are indexed by node (1..Len(T.key)), 0 stands for None, and T.root is   *)
(* the root the functions pass around and return.                          *)
(***************************************************************************)
RED == TRUE
BLACK == FALSE

RbEmpty == [key |-> <<>>, color |-> <<>>, left |-> <<>>, right |-> <<>>,
            parent |-> <<>>, root |-> 0]

(* RBNode(key, color): allocates the next node of the arena. *)
RBNode(T, key, color) ==
    [T EXCEPT !.key = Append(@, key), !.color = Append(@, color),
              !.left = Append(@, 0), !.right = Append(@, 0),
              !.parent = Append(@, 0)]

(* left rotation that does not tell y's left subtree about its new parent. *)
rb_rotate_left_stale_parent(T, x) ==
    LET y == T.right[x]
    IN IF y = 0 THEN T
       ELSE LET T1 == [T EXCEPT !.right[x] = T.left[y]]
                T3 == [T1 EXCEPT !.parent[y] = T1.parent[x]]
                xp == T3.parent[x]
                T4 == IF xp = 0 THEN [T3 EXCEPT !.root = y]
                      ELSE IF x = T3.left[xp] THEN [T3 EXCEPT !.left[xp] = y]
                      ELSE [T3 EXCEPT !.right[xp] = y]
            IN [T4 EXCEPT !.left[y] = x, !.parent[x] = y]

rb_rotate_left(T, x) ==
    LET y == T.right[x]
    IN IF y = 0 THEN T
       ELSE LET T1 == [T EXCEPT !.right[x] = T.left[y]]
                T2 == IF T1.left[y] # 0
                        THEN [T1 EXCEPT !.parent[T1.left[y]] = x] ELSE T1
                T3 == [T2 EXCEPT !.parent[y] = T2.parent[x]]
                xp == T3.parent[x]
                T4 == IF xp = 0 THEN [T3 EXCEPT !.root = y]
                      ELSE IF x = T3.left[xp] THEN [T3 EXCEPT !.left[xp] = y]
                      ELSE [T3 EXCEPT !.right[xp] = y]
            IN [T4 EXCEPT !.left[y] = x, !.parent[x] = y]

rb_rotate_right(T, x) ==
    LET y == T.left[x]
    IN IF y = 0 THEN T
       ELSE LET T1 == [T EXCEPT !.left[x] = T.right[y]]
                T2 == IF T1.right[y] # 0
                        THEN [T1 EXCEPT !.parent[T1.right[y]] = x] ELSE T1
                T3 == [T2 EXCEPT !.parent[y] = T2.parent[x]]
                xp == T3.parent[x]
                T4 == IF xp = 0 THEN [T3 EXCEPT !.root = y]
                      ELSE IF x = T3.right[xp] THEN [T3 EXCEPT !.right[xp] = y]
                      ELSE [T3 EXCEPT !.left[xp] = y]
            IN [T4 EXCEPT !.right[y] = x, !.parent[x] = y]

(* insert_fixup that stops after a recolouring (uncle RED) instead of going on
   from the grandparent. *)
RECURSIVE insert_fixup_no_climb(_, _)
insert_fixup_no_climb(T, x) ==
    IF ~(T.parent[x] # 0 /\ T.color[T.parent[x]] = RED)
      THEN [T EXCEPT !.color[T.root] = BLACK]
    ELSE
      LET p == T.parent[x]
          grand == T.parent[p]
      IN IF grand # 0 /\ p = T.left[grand] THEN
           LET uncle == T.right[grand]
           IN IF uncle # 0 /\ T.color[uncle] = RED
                THEN LET T1 == [T EXCEPT !.color[p] = BLACK, !.color[uncle] = BLACK,
                                         !.color[grand] = RED]
                     IN [T1 EXCEPT !.color[T1.root] = BLACK]
                ELSE LET inner == (x = T.right[p])
                         T1 == IF inner THEN rb_rotate_left(T, p) ELSE T
                         x1 == IF inner /\ T1.left[x] # 0 THEN T1.left[x] ELSE x
                         T2 == [T1 EXCEPT !.color[T1.parent[x1]] = BLACK]
                         T3 == [T2 EXCEPT !.color[grand] = RED]
                     IN insert_fixup_no_climb(rb_rotate_right(T3, grand), x1)
         ELSE IF grand # 0 /\ p = T.right[grand] THEN
           LET uncle == T.left[grand]
           IN IF uncle # 0 /\ T.color[uncle] = RED
                THEN LET T1 == [T EXCEPT !.color[p] = BLACK, !.color[uncle] = BLACK,
                                         !.color[grand] = RED]
                     IN [T1 EXCEPT !.color[T1.root] = BLACK]
                ELSE LET inner == (x = T.left[p])
                         T1 == IF inner THEN rb_rotate_right(T, p) ELSE T
                         x1 == IF inner /\ T1.right[x] # 0 THEN T1.right[x] ELSE x
                         T2 == [T1 EXCEPT !.color[T1.parent[x1]] = BLACK]
                         T3 == [T2 EXCEPT !.color[grand] = RED]
                     IN insert_fixup_no_climb(rb_rotate_left(T3, grand), x1)
         ELSE [T EXCEPT !.color[T.root] = BLACK]

(* insert_fixup whose rotation cases colour the parent BLACK but leave the
   grandparent's colour as it was. *)
RECURSIVE insert_fixup_grand_keeps_color(_, _)
insert_fixup_grand_keeps_color(T, x) ==
    IF ~(T.parent[x] # 0 /\ T.color[T.parent[x]] = RED)
      THEN [T EXCEPT !.color[T.root] = BLACK]
    ELSE
      LET p == T.parent[x]
          grand == T.parent[p]
      IN IF grand # 0 /\ p = T.left[grand] THEN
           LET uncle == T.right[grand]
           IN IF uncle # 0 /\ T.color[uncle] = RED
                THEN insert_fixup_grand_keeps_color(
                         [T EXCEPT !.color[p] = BLACK, !.color[uncle] = BLACK,
                                   !.color[grand] = RED], grand)
                ELSE LET inner == (x = T.right[p])
                         T1 == IF inner THEN rb_rotate_left(T, p) ELSE T
                         x1 == IF inner /\ T1.left[x] # 0 THEN T1.left[x] ELSE x
                         T2 == [T1 EXCEPT !.color[T1.parent[x1]] = BLACK]
                     IN insert_fixup_grand_keeps_color(rb_rotate_right(T2, grand), x1)
         ELSE IF grand # 0 /\ p = T.right[grand] THEN
           LET uncle == T.left[grand]
           IN IF uncle # 0 /\ T.color[uncle] = RED
                THEN insert_fixup_grand_keeps_color(
                         [T EXCEPT !.color[p] = BLACK, !.color[uncle] = BLACK,
                                   !.color[grand] = RED], grand)
                ELSE LET inner == (x = T.left[p])
                         T1 == IF inner THEN rb_rotate_right(T, p) ELSE T
                         x1 == IF inner /\ T1.right[x] # 0 THEN T1.right[x] ELSE x
                         T2 == [T1 EXCEPT !.color[T1.parent[x1]] = BLACK]
                     IN insert_fixup_grand_keeps_color(rb_rotate_left(T2, grand), x1)
         ELSE [T EXCEPT !.color[T.root] = BLACK]

(* insert_fixup: one unfolding per iteration of the while loop; the loop's exit
   and its break both fall through to root.color = BLACK. *)
RECURSIVE insert_fixup(_, _)
insert_fixup(T, x) ==
    IF ~(T.parent[x] # 0 /\ T.color[T.parent[x]] = RED)
      THEN [T EXCEPT !.color[T.root] = BLACK]
    ELSE
      LET p == T.parent[x]
          grand == T.parent[p]
      IN IF grand # 0 /\ p = T.left[grand] THEN
           LET uncle == T.right[grand]
           IN IF uncle # 0 /\ T.color[uncle] = RED
                THEN insert_fixup([T EXCEPT !.color[p] = BLACK, !.color[uncle] = BLACK,
                                            !.color[grand] = RED], grand)
                ELSE LET inner == (x = T.right[p])
                         T1 == IF inner THEN rb_rotate_left(T, p) ELSE T
                         x1 == IF inner /\ T1.left[x] # 0 THEN T1.left[x] ELSE x
                         T2 == [T1 EXCEPT !.color[T1.parent[x1]] = BLACK]
                         T3 == [T2 EXCEPT !.color[grand] = RED]
                     IN insert_fixup(rb_rotate_right(T3, grand), x1)
         ELSE IF grand # 0 /\ p = T.right[grand] THEN
           LET uncle == T.left[grand]
           IN IF uncle # 0 /\ T.color[uncle] = RED
                THEN insert_fixup([T EXCEPT !.color[p] = BLACK, !.color[uncle] = BLACK,
                                            !.color[grand] = RED], grand)
                ELSE LET inner == (x = T.left[p])
                         T1 == IF inner THEN rb_rotate_right(T, p) ELSE T
                         x1 == IF inner /\ T1.right[x] # 0 THEN T1.right[x] ELSE x
                         T2 == [T1 EXCEPT !.color[T1.parent[x1]] = BLACK]
                         T3 == [T2 EXCEPT !.color[grand] = RED]
                     IN insert_fixup(rb_rotate_left(T3, grand), x1)
         ELSE [T EXCEPT !.color[T.root] = BLACK]

(* The descent loop of insert_rb: links new_node below the first node on the
   search path that has a free child on the key's side. *)
RECURSIVE rb_bst_insert(_, _, _, _)
rb_bst_insert(T, current, key, new_node) ==
    IF key < T.key[current]
      THEN IF T.left[current] = 0
             THEN [T EXCEPT !.left[current] = new_node, !.parent[new_node] = current]
             ELSE rb_bst_insert(T, T.left[current], key, new_node)
    ELSE IF T.right[current] = 0
      THEN [T EXCEPT !.right[current] = new_node, !.parent[new_node] = current]
    ELSE rb_bst_insert(T, T.right[current], key, new_node)

insert_rb(T, key) ==
    LET new_node == Len(T.key) + 1
        T0 == RBNode(T, key, RED)
        T1 == IF T0.root = 0 THEN [T0 EXCEPT !.root = new_node]
              ELSE rb_bst_insert(T0, T0.root, key, new_node)
    IN insert_fixup(T1, new_node)

(***************************************************************************)
(* B-tree: 011_b_trees_external_memory_disk.py                             *)
(* A node is [t, leaf, keys, children]; keys and children are Python       *)
(* lists, modelled as sequences and addressed with Python's 0-based        *)
(* indices through the helpers below.                                      *)
(***************************************************************************)
Min(a, b) == IF a <= b THEN a ELSE b

(* lst[i] *)
PyAt(lst, i) == lst[i + 1]

(* lst[a:b], clamped to the list as Python clamps a slice *)
PySlice(lst, a, b) == SubSeq(lst, Min(a, Len(lst)) + 1, Min(b, Len(lst)))

(* lst.insert(i, x) for 0 <= i <= len(lst) *)
PyInsert(lst, i, x) == SubSeq(lst, 1, i) \o <<x>> \o SubSeq(lst, i + 1, Len(lst))

(* lst[i] = x *)
PySet(lst, i, x) == [lst EXCEPT ![i + 1] = x]

BTreeNode(t, leaf) == [t |-> t, leaf |-> leaf, keys |-> <<>>, children |-> <<>>]

(* split_child that leaves the median key in the left half as well. *)
split_child_keeps_median(parent, i) ==
    LET t == parent.t
        full_child == PyAt(parent.children, i)
        new_node == [BTreeNode(t, full_child.leaf) EXCEPT
                        !.keys = PySlice(full_child.keys, t, Len(full_child.keys))]
        median_key == PyAt(full_child.keys, t - 1)
        child1 == [full_child EXCEPT !.keys = PySlice(full_child.keys, 0, t)]
        new_node2 == IF ~full_child.leaf
                       THEN [new_node EXCEPT !.children =
                               PySlice(full_child.children, t, Len(full_child.children))]
                       ELSE new_node
        child2 == IF ~full_child.leaf
                    THEN [child1 EXCEPT !.children = PySlice(full_child.children, 0, t)]
                    ELSE child1
    IN [parent EXCEPT
          !.keys = PyInsert(@, i, median_key),
          !.children = PyInsert(PySet(@, i, child2), i + 1, new_node2)]

(* Returns parent after the split of parent.children[i]. *)
split_child(parent, i) ==
    LET t == parent.t
        full_child == PyAt(parent.children, i)
        new_node == [BTreeNode(t, full_child.leaf) EXCEPT
                        !.keys = PySlice(full_child.keys, t, Len(full_child.keys))]
        median_key == PyAt(full_child.keys, t - 1)
        child1 == [full_child EXCEPT !.keys = PySlice(full_child.keys, 0, t - 1)]
        new_node2 == IF ~full_child.leaf
                       THEN [new_node EXCEPT !.children =
                               PySlice(full_child.children, t, Len(full_child.children))]
                       ELSE new_node
        child2 == IF ~full_child.leaf
                    THEN [child1 EXCEPT !.children = PySlice(full_child.children, 0, t)]
                    ELSE child1
    IN [parent EXCEPT
          !.keys = PyInsert(@, i, median_key),
          !.children = PyInsert(PySet(@, i, child2), i + 1, new_node2)]

(* The leaf loop of btree_insert_nonfull: shifts the keys greater than key one
   place right, from index i downwards, and writes key into the gap. *)
RECURSIVE bt_shift_in(_, _, _)
bt_shift_in(keys, i, key) ==
    IF i >= 0 /\ key < PyAt(keys, i)
      THEN bt_shift_in(PySet(keys, i + 1, PyAt(keys, i)), i - 1, key)
      ELSE PySet(keys, i + 1, key)

(* The descent loop of btree_insert_nonfull: the index the while loop ends on. *)
RECURSIVE bt_scan_down(_, _, _)
bt_scan_down(keys, i, key) ==
    IF i >= 0 /\ key < PyAt(keys, i) THEN bt_scan_down(keys, i - 1, key) ELSE i

(* btree_insert_nonfull that takes a child for full only at 2t keys. *)
RECURSIVE btree_insert_nonfull_late_split(_, _)
btree_insert_nonfull_late_split(node, key) ==
    LET i == Len(node.keys) - 1
    IN IF node.leaf
         THEN [node EXCEPT !.keys = bt_shift_in(Append(node.keys, 0), i, key)]
         ELSE LET i1 == bt_scan_down(node.keys, i, key) + 1
                  full == Len(PyAt(node.children, i1).keys) = 2 * node.t
                  node1 == IF full THEN split_child(node, i1) ELSE node
                  i2 == IF full /\ key > PyAt(node1.keys, i1) THEN i1 + 1 ELSE i1
              IN [node1 EXCEPT !.children =
                    PySet(@, i2, btree_insert_nonfull_late_split(PyAt(@, i2), key))]

(* Returns node after the insertion of key below it. *)
RECURSIVE btree_insert_nonfull(_, _)
btree_insert_nonfull(node, key) ==
    LET i == Len(node.keys) - 1
    IN IF node.leaf
         THEN [node EXCEPT !.keys = bt_shift_in(Append(node.keys, 0), i, key)]
         ELSE LET i1 == bt_scan_down(node.keys, i, key) + 1
                  full == Len(PyAt(node.children, i1).keys) = 2 * node.t - 1
                  node1 == IF full THEN split_child(node, i1) ELSE node
                  i2 == IF full /\ key > PyAt(node1.keys, i1) THEN i1 + 1 ELSE i1
              IN [node1 EXCEPT !.children =
                    PySet(@, i2, btree_insert_nonfull(PyAt(@, i2), key))]

(* btree_insert that already splits a root one key short of full. *)
btree_insert_early_root_split(root, key, t) ==
    IF root = None
      THEN [BTreeNode(t, TRUE) EXCEPT !.keys = Append(@, key)]
    ELSE IF Len(root.keys) >= 2 * t - 2
      THEN LET new_root == split_child(
                              [BTreeNode(t, FALSE) EXCEPT !.children = Append(@, root)], 0)
               i == IF key > PyAt(new_root.keys, 0) THEN 1 ELSE 0
           IN [new_root EXCEPT !.children =
                 PySet(@, i, btree_insert_nonfull(PyAt(@, i), key))]
    ELSE btree_insert_nonfull(root, key)

btree_insert(root, key, t) ==
    IF root = None
      THEN [BTreeNode(t, TRUE) EXCEPT !.keys = Append(@, key)]
    ELSE IF Len(root.keys) = 2 * t - 1
      THEN LET new_root == split_child(
                              [BTreeNode(t, FALSE) EXCEPT !.children = Append(@, root)], 0)
               i == IF key > PyAt(new_root.keys, 0) THEN 1 ELSE 0
           IN [new_root EXCEPT !.children =
                 PySet(@, i, btree_insert_nonfull(PyAt(@, i), key))]
    ELSE btree_insert_nonfull(root, key)

(* The scan of btree_search: the first index from i whose key is >= key. *)
RECURSIVE bt_scan_up(_, _, _)
bt_scan_up(keys, i, key) ==
    IF i < Len(keys) /\ key > PyAt(keys, i) THEN bt_scan_up(keys, i + 1, key) ELSE i

(* btree_search whose scan also steps over a key equal to the one sought. *)
RECURSIVE btree_search_scan_past_equal(_, _)
btree_search_scan_past_equal(node, key) ==
    IF node = None THEN FALSE
    ELSE LET RECURSIVE scan(_)
             scan(j) == IF j < Len(node.keys) /\ key >= PyAt(node.keys, j)
                          THEN scan(j + 1) ELSE j
             i == scan(0)
         IN IF i < Len(node.keys) /\ PyAt(node.keys, i) = key THEN TRUE
            ELSE IF node.leaf THEN FALSE
            ELSE btree_search_scan_past_equal(PyAt(node.children, i), key)

RECURSIVE btree_search(_, _)
btree_search(node, key) ==
    IF node = None THEN FALSE
    ELSE LET i == bt_scan_up(node.keys, 0, key)
         IN IF i < Len(node.keys) /\ PyAt(node.keys, i) = key THEN TRUE
            ELSE IF node.leaf THEN FALSE
            ELSE btree_search(PyAt(node.children, i), key)

(* inorder_traverse appends to arr in place; here it returns arr afterwards.
   bt_traverse_from is its while loop from index i, last child included. *)
RECURSIVE inorder_traverse(_, _)
RECURSIVE bt_traverse_from(_, _, _)
bt_traverse_from(node, i, arr) ==
    IF i < Len(node.keys)
      THEN LET arr1 == IF i < Len(node.children)
                         THEN inorder_traverse(PyAt(node.children, i), arr)
                         ELSE arr
           IN bt_traverse_from(node, i + 1, Append(arr1, PyAt(node.keys, i)))
    ELSE IF i < Len(node.children)
      THEN inorder_traverse(PyAt(node.children, i), arr)
    ELSE arr

inorder_traverse(node, arr) ==
    IF node = None THEN arr ELSE bt_traverse_from(node, 0, arr)

(***************************************************************************)
(* 2-3 tree: 012_2_3_trees_other_multiway_balance_structures.py            *)
(* A node is [keys, children, leaf], the lists addressed as for the        *)
(* B-tree.  The functions change nodes in place and can raise IndexError   *)
(* on a list index out of range; each operator returns the node as the     *)
(* call leaves it and whether the call raised: [node, failed].             *)
(***************************************************************************)
Two3Node(leaf) == [keys |-> <<>>, children |-> <<>>, leaf |-> leaf]

is_full_2keys(node) == Len(node.keys) = 2

(* keys.append(key); keys.sort() on a sorted list *)
RECURSIVE t23_sorted_insert(_, _)
t23_sorted_insert(keys, key) ==
    IF keys = <<>> THEN <<key>>
    ELSE IF key < Head(keys) THEN <<key>> \o keys
    ELSE <<Head(keys)>> \o t23_sorted_insert(Tail(keys), key)

(* Every index split_2node reads (children[index], keys[1], keys[0], keys[2])
   is read before the first assignment, so a call that raises changes
   nothing. *)
split_2node(parent, index) ==
    IF index >= Len(parent.children) \/ Len(PyAt(parent.children, index).keys) < 3
      THEN [node |-> parent, failed |-> TRUE]
    ELSE LET child == PyAt(parent.children, index)
             mid_key == PyAt(child.keys, 1)
             left_key == PyAt(child.keys, 0)
             right_key == PyAt(child.keys, 2)
             new_node == [Two3Node(child.leaf) EXCEPT
                            !.keys = <<right_key>>,
                            !.children = IF ~child.leaf
                                           THEN PySlice(child.children, 2, Len(child.children))
                                           ELSE <<>>]
             child1 == [child EXCEPT
                          !.keys = <<left_key>>,
                          !.children = IF ~child.leaf THEN PySlice(@, 0, 2) ELSE @]
         IN [node |-> [parent EXCEPT
                         !.keys = PyInsert(@, index, mid_key),
                         !.children = PyInsert(PySet(@, index, child1), index + 1, new_node)],
             failed |-> FALSE]

(* The scan of insert_nonfull_2node: the first index from i whose key is >= key. *)
RECURSIVE t23_scan(_, _, _)
t23_scan(keys, i, key) ==
    IF i < Len(keys) /\ key > PyAt(keys, i) THEN t23_scan(keys, i + 1, key) ELSE i

RECURSIVE insert_nonfull_2node(_, _)
(* The last part of insert_nonfull_2node: insert below children[i] when it
   exists and holds fewer than 2 keys. *)
t23_descend(node, i, key) ==
    IF Len(node.children) > i /\ Len(PyAt(node.children, i).keys) < 2
      THEN LET r == insert_nonfull_2node(PyAt(node.children, i), key)
           IN [node |-> [node EXCEPT !.children = PySet(@, i, r.node)],
               failed |-> r.failed]
      ELSE [node |-> node, failed |-> FALSE]

insert_nonfull_2node(node, key) ==
    IF node.leaf
      THEN [node |-> [node EXCEPT !.keys = t23_sorted_insert(@, key)], failed |-> FALSE]
    ELSE LET i == t23_scan(node.keys, 0, key)
         IN IF i >= Len(node.children) THEN [node |-> node, failed |-> TRUE]
            ELSE IF is_full_2keys(PyAt(node.children, i))
              THEN LET r1 == insert_nonfull_2node(PyAt(node.children, i), key)
                       node1 == [node EXCEPT !.children = PySet(@, i, r1.node)]
                       r2 == split_2node(node1, i)
                   IN IF r1.failed THEN [node |-> node1, failed |-> TRUE]
                      ELSE IF r2.failed THEN r2
                      ELSE t23_descend(r2.node,
                                       IF key > PyAt(r2.node.keys, i) THEN i + 1 ELSE i,
                                       key)
            ELSE t23_descend(node, i, key)

(* insert_23 returns the new root; when it raises, the caller's root stays
   the node it passed, changed in place as far as the call got. *)
insert_23(root, key) ==
    IF root = None
      THEN [node |-> [Two3Node(TRUE) EXCEPT !.keys = <<key>>], failed |-> FALSE]
    ELSE IF is_full_2keys(root)
      THEN LET r == insert_nonfull_2node(root, key)
               new_parent == [Two3Node(FALSE) EXCEPT !.children = <<r.node>>]
           IN IF r.failed THEN r
              ELSE IF Len(r.node.keys) = 3
                THEN [node |-> split_2node(new_parent, 0).node, failed |-> FALSE]
              ELSE [node |-> new_parent, failed |-> FALSE]
    ELSE insert_nonfull_2node(root, key)

(* inorder appends to arr in place; here it returns arr afterwards.  A node
   with neither 1 nor 2 keys adds nothing. *)
RECURSIVE inorder(_, _)
inorder(node, arr) ==
    IF node = None THEN arr
    ELSE IF Len(node.keys) = 1
      THEN LET a0 == IF Len(node.children) > 0
                       THEN inorder(PyAt(node.children, 0), arr) ELSE arr
               a1 == Append(a0, PyAt(node.keys, 0))
           IN IF Len(node.children) > 1 THEN inorder(PyAt(node.children, 1), a1) ELSE a1
    ELSE IF Len(node.keys) = 2
      THEN LET a0 == IF Len(node.children) > 0
                       THEN inorder(PyAt(node.children, 0), arr) ELSE arr
               a1 == Append(a0, PyAt(node.keys, 0))
               a2 == IF Len(node.children) > 1
                       THEN inorder(PyAt(node.children, 1), a1) ELSE a1
               a3 == Append(a2, PyAt(node.keys, 1))
           IN IF Len(node.children) > 2 THEN inorder(PyAt(node.children, 2), a3) ELSE a3
    ELSE arr

(***************************************************************************)
(* Treap: 006_treap_randomized_bst_with_heap_priority.py                   *)
(* TreapNode draws its priority from random.random(); the draw is an       *)
(* input of the model, passed down to the place where the node is made.    *)
(* Only the order of two priorities is ever used, so the draws are taken   *)
(* from a small range of integers, equal draws included.                   *)
(***************************************************************************)
TreapNode(key, priority) ==
    [key |-> key, priority |-> priority, left |-> None, right |-> None]

treap_rotate_left(root) ==
    LET y == root.right
    IN IF y = None THEN root
       ELSE [y EXCEPT !.left = [root EXCEPT !.right = y.left]]

treap_rotate_right(root) ==
    LET y == root.left
    IN IF y = None THEN root
       ELSE [y EXCEPT !.right = [root EXCEPT !.left = y.right]]

(* insert_treap that rotates a child up when its priority is lower (the
   min-heap test) instead of higher. *)
RECURSIVE insert_treap_min_heap(_, _, _)
insert_treap_min_heap(root, key, priority) ==
    IF root = None THEN TreapNode(key, priority)
    ELSE IF key < root.key
      THEN LET r1 == [root EXCEPT !.left = insert_treap_min_heap(root.left, key, priority)]
           IN IF r1.left # None /\ r1.left.priority < r1.priority
                THEN treap_rotate_right(r1) ELSE r1
      ELSE LET r1 == [root EXCEPT !.right = insert_treap_min_heap(root.right, key, priority)]
           IN IF r1.right # None /\ r1.right.priority < r1.priority
                THEN treap_rotate_left(r1) ELSE r1

RECURSIVE insert_treap(_, _, _)
insert_treap(root, key, priority) ==
    IF root = None THEN TreapNode(key, priority)
    ELSE IF key < root.key
      THEN LET r1 == [root EXCEPT !.left = insert_treap(root.left, key, priority)]
           IN IF r1.left # None /\ r1.left.priority > r1.priority
                THEN treap_rotate_right(r1) ELSE r1
      ELSE LET r1 == [root EXCEPT !.right = insert_treap(root.right, key, priority)]
           IN IF r1.right # None /\ r1.right.priority > r1.priority
                THEN treap_rotate_left(r1) ELSE r1

(* Placement alone: where insert_treap puts the node when no rotation fires. *)
RECURSIVE TreapPlaced(_, _, _)
TreapPlaced(root, key, priority) ==
    IF root = None THEN TreapNode(key, priority)
    ELSE IF key < root.key
      THEN [root EXCEPT !.left = TreapPlaced(root.left, key, priority)]
      ELSE [root EXCEPT !.right = TreapPlaced(root.right, key, priority)]

(***************************************************************************)
(* Priority queue on a treap: 015_priority_queue_from_bst_treap.py         *)
(*                                                                         *)
(* A min-heap treap: the parent's priority is the smaller one.  The        *)
(* priority is drawn inside the constructor; here it is an argument, taken *)
(* from a small range of integers with equal draws included.               *)
(***************************************************************************)
PQTreapNode(key, priority) ==
    [key |-> key, priority |-> priority, left |-> None, right |-> None]

rotate_right(root) ==
    LET y == root.left
    IN IF y = None THEN root
       ELSE [y EXCEPT !.right = [root EXCEPT !.left = y.right]]

rotate_left(root) ==
    LET y == root.right
    IN IF y = None THEN root
       ELSE [y EXCEPT !.left = [root EXCEPT !.right = y.left]]

RECURSIVE treap_insert(_, _, _)
treap_insert(root, key, priority) ==
    IF root = None THEN PQTreapNode(key, priority)
    ELSE IF key < root.key
      THEN LET r1 == [root EXCEPT !.left = treap_insert(root.left, key, priority)]
           IN IF r1.left # None /\ r1.left.priority < r1.priority
                THEN rotate_right(r1) ELSE r1
      ELSE LET r1 == [root EXCEPT !.right = treap_insert(root.right, key, priority)]
           IN IF r1.right # None /\ r1.right.priority < r1.priority
                THEN rotate_left(r1) ELSE r1

(* The leftmost node. *)
RECURSIVE find_min(_)
find_min(root) ==
    IF root # None /\ root.left # None THEN find_min(root.left) ELSE root

RECURSIVE treap_splay_to_root(_, _)
treap_splay_to_root(root, key) ==
    IF root = None \/ root.key = key THEN root
    ELSE IF key < root.key /\ root.left # None
      THEN IF root.left.key = key
             THEN rotate_right(root)
             ELSE rotate_right([root EXCEPT !.left = treap_splay_to_root(root.left, key)])
    ELSE IF key > root.key /\ root.right # None
      THEN IF root.right.key = key
             THEN rotate_left(root)
             ELSE rotate_left([root EXCEPT !.right = treap_splay_to_root(root.right, key)])
    ELSE root

(* merge_treap that lets the larger priority win. *)
RECURSIVE merge_treap_max_heap(_, _)
merge_treap_max_heap(left, right) ==
    IF left = None THEN right
    ELSE IF right = None THEN left
    ELSE IF left.priority > right.priority
      THEN [left EXCEPT !.right = merge_treap_max_heap(left.right, right)]
    ELSE [right EXCEPT !.left = merge_treap_max_heap(left, right.left)]

(* merge_treap that hangs the left treap under the right root in place of the
   right root's own left subtree. *)
RECURSIVE merge_treap_overwrites_left(_, _)
merge_treap_overwrites_left(left, right) ==
    IF left = None THEN right
    ELSE IF right = None THEN left
    ELSE IF left.priority < right.priority
      THEN [left EXCEPT !.right = merge_treap_overwrites_left(left.right, right)]
    ELSE [right EXCEPT !.left = left]

RECURSIVE merge_treap(_, _)
merge_treap(left, right) ==
    IF left = None THEN right
    ELSE IF right = None THEN left
    ELSE IF left.priority < right.priority
      THEN [left EXCEPT !.right = merge_treap(left.right, right)]
    ELSE [right EXCEPT !.left = merge_treap(left, right.left)]

(* None in the place of a key: the keys themselves are positive. *)
NoKey == 0

(* extract_min that removes the root without rotating the minimum up first. *)
extract_min_no_splay(root) ==
    IF root = None THEN [root |-> None, min_key |-> NoKey]
    ELSE LET min_key == find_min(root).key
         IN [root |-> merge_treap(root.left, root.right), min_key |-> min_key]

(* The pair (new_root, min_key). *)
extract_min(root) ==
    IF root = None THEN [root |-> None, min_key |-> NoKey]
    ELSE LET min_key == find_min(root).key
             r1 == treap_splay_to_root(root, min_key)
         IN [root |-> merge_treap(r1.left, r1.right), min_key |-> min_key]

(* The list treap_inorder appends to an empty out. *)
RECURSIVE treap_inorder(_)
treap_inorder(root) ==
    IF root = None THEN <<>>
    ELSE treap_inorder(root.left) \o <<root.key>> \o treap_inorder(root.right)

(***************************************************************************)
(* Size-balanced BST: 008_weight_balanced_size_balanced_bsts.py            *)
(* The float ratio is the fraction ratio.num / ratio.den, so that           *)
(* a > ratio * b is a * ratio.den > ratio.num * b.                         *)
(***************************************************************************)
SizeBSTNode(key) == [key |-> key, size |-> 1, left |-> None, right |-> None]

get_size(node) == IF node = None THEN 0 ELSE node.size

update_size(node) ==
    [node EXCEPT !.size = 1 + get_size(node.left) + get_size(node.right)]

sb_rotate_left(root) ==
    LET y == root.right
    IN IF y = None THEN root
       ELSE LET r1 == update_size([root EXCEPT !.right = y.left])
            IN update_size([y EXCEPT !.left = r1])

(* right rotation that does not recompute the size of the node it moves down. *)
sb_rotate_right_stale_size(root) ==
    LET y == root.left
    IN IF y = None THEN root
       ELSE update_size([y EXCEPT !.right = [root EXCEPT !.left = y.right]])

sb_rotate_right(root) ==
    LET y == root.left
    IN IF y = None THEN root
       ELSE LET r1 == update_size([root EXCEPT !.left = y.right])
            IN update_size([y EXCEPT !.right = r1])

RatioExceeds(a, ratio, b) == a * ratio.den > ratio.num * b

fix_sizebalance(node, ratio) ==
    IF node = None THEN node
    ELSE LET left_size == get_size(node.left)
             right_size == get_size(node.right)
         IN IF RatioExceeds(left_size, ratio, right_size) /\ node.left # None
              THEN LET left_left_sz == get_size(node.left.left)
                       left_right_sz == get_size(node.left.right)
                       n1 == IF left_right_sz > left_left_sz
                               THEN [node EXCEPT !.left = sb_rotate_left(node.left)]
                               ELSE node
                   IN sb_rotate_right(n1)
            ELSE IF RatioExceeds(right_size, ratio, left_size) /\ node.right # None
              THEN LET right_left_sz == get_size(node.right.left)
                       right_right_sz == get_size(node.right.right)
                       n1 == IF right_left_sz > right_right_sz
                               THEN [node EXCEPT !.right = sb_rotate_right(node.right)]
                               ELSE node
                   IN sb_rotate_left(n1)
            ELSE node

RECURSIVE insert_sizebst(_, _, _)
insert_sizebst(root, key, ratio) ==
    IF root = None THEN SizeBSTNode(key)
    ELSE LET placed == IF key < root.key
                         THEN [root EXCEPT !.left = insert_sizebst(root.left, key, ratio)]
                         ELSE [root EXCEPT !.right = insert_sizebst(root.right, key, ratio)]
         IN fix_sizebalance(update_size(placed), ratio)

(***************************************************************************)
(* Splay tree: 007_splay_trees_self_adjusting_bst.py                       *)
(* An arena like the red-black tree's, without colours.  The rotations do  *)
(* not know the root; T.root is the node the caller holds, set from the    *)
(* value insert_splay and search_splay return.                             *)
(***************************************************************************)
SplayEmpty == [key |-> <<>>, left |-> <<>>, right |-> <<>>, parent |-> <<>>,
               root |-> 0]

(* SplayNode(key): allocates the next node of the arena. *)
SplayNode(T, key) ==
    [T EXCEPT !.key = Append(@, key), !.left = Append(@, 0),
              !.right = Append(@, 0), !.parent = Append(@, 0)]

(* left rotation that forgets to hang y's left subtree under x. *)
splay_rotate_left_drops_subtree(T, x) ==
    LET y == T.right[x]
    IN IF y = 0 THEN T
       ELSE LET T1 == [T EXCEPT !.right[x] = 0]
                T3 == [T1 EXCEPT !.parent[y] = T1.parent[x]]
                xp == T3.parent[x]
                T4 == IF xp = 0 THEN T3
                      ELSE IF x = T3.left[xp] THEN [T3 EXCEPT !.left[xp] = y]
                      ELSE [T3 EXCEPT !.right[xp] = y]
            IN [T4 EXCEPT !.left[y] = x, !.parent[x] = y]

splay_rotate_left(T, x) ==
    LET y == T.right[x]
    IN IF y = 0 THEN T
       ELSE LET T1 == [T EXCEPT !.right[x] = T.left[y]]
                T2 == IF T1.left[y] # 0
                        THEN [T1 EXCEPT !.parent[T1.left[y]] = x] ELSE T1
                T3 == [T2 EXCEPT !.parent[y] = T2.parent[x]]
                xp == T3.parent[x]
                T4 == IF xp = 0 THEN T3
                      ELSE IF x = T3.left[xp] THEN [T3 EXCEPT !.left[xp] = y]
                      ELSE [T3 EXCEPT !.right[xp] = y]
            IN [T4 EXCEPT !.left[y] = x, !.parent[x] = y]

splay_rotate_right(T, x) ==
    LET y == T.left[x]
    IN IF y = 0 THEN T
       ELSE LET T1 == [T EXCEPT !.left[x] = T.right[y]]
                T2 == IF T1.right[y] # 0
                        THEN [T1 EXCEPT !.parent[T1.right[y]] = x] ELSE T1
                T3 == [T2 EXCEPT !.parent[y] = T2.parent[x]]
                xp == T3.parent[x]
                T4 == IF xp = 0 THEN T3
                      ELSE IF x = T3.left[xp] THEN [T3 EXCEPT !.left[xp] = y]
                      ELSE [T3 EXCEPT !.right[xp] = y]
            IN [T4 EXCEPT !.right[y] = x, !.parent[x] = y]

(* splay that performs a zig-zig or zig-zag step and then returns, leaving the
   node wherever that one step put it. *)
splay_one_double_step(T, x) ==
    IF T.parent[x] = 0 THEN T
    ELSE LET p == T.parent[x]
             gp == T.parent[p]
         IN IF gp = 0
              THEN IF x = T.left[p] THEN splay_rotate_right(T, p)
                                    ELSE splay_rotate_left(T, p)
            ELSE IF x = T.left[p] /\ p = T.left[gp]
              THEN splay_rotate_right(splay_rotate_right(T, gp), p)
            ELSE IF x = T.right[p] /\ p = T.right[gp]
              THEN splay_rotate_left(splay_rotate_left(T, gp), p)
            ELSE IF x = T.right[p] /\ p = T.left[gp]
              THEN splay_rotate_right(splay_rotate_left(T, p), gp)
            ELSE splay_rotate_left(splay_rotate_right(T, p), gp)

(* The kind of step the next iteration of splay's loop takes for x. *)
splay_step_kind(T, x) ==
    LET p == T.parent[x]
        gp == T.parent[p]
    IN IF gp = 0 THEN "zig"
       ELSE IF (x = T.left[p] /\ p = T.left[gp]) \/ (x = T.right[p] /\ p = T.right[gp])
         THEN "zig_zig"
       ELSE "zig_zag"

(* An iteration that in the left-left case rotates at the grandparent only. *)
splay_iteration_half_zig_zig(T, x) ==
    LET p == T.parent[x]
        gp == T.parent[p]
    IN IF gp = 0
         THEN IF x = T.left[p] THEN splay_rotate_right(T, p)
                               ELSE splay_rotate_left(T, p)
       ELSE IF x = T.left[p] /\ p = T.left[gp]
         THEN splay_rotate_right(T, gp)
       ELSE IF x = T.right[p] /\ p = T.right[gp]
         THEN splay_rotate_left(splay_rotate_left(T, gp), p)
       ELSE IF x = T.right[p] /\ p = T.left[gp]
         THEN splay_rotate_right(splay_rotate_left(T, p), gp)
       ELSE splay_rotate_left(splay_rotate_right(T, p), gp)

(* One iteration of the while loop of splay, for x with a parent. *)
splay_iteration(T, x) ==
    LET p == T.parent[x]
        gp == T.parent[p]
    IN IF gp = 0
         THEN IF x = T.left[p] THEN splay_rotate_right(T, p)
                               ELSE splay_rotate_left(T, p)
       ELSE IF x = T.left[p] /\ p = T.left[gp]
         THEN splay_rotate_right(splay_rotate_right(T, gp), p)
       ELSE IF x = T.right[p] /\ p = T.right[gp]
         THEN splay_rotate_left(splay_rotate_left(T, gp), p)
       ELSE IF x = T.right[p] /\ p = T.left[gp]
         THEN splay_rotate_right(splay_rotate_left(T, p), gp)
       ELSE splay_rotate_left(splay_rotate_right(T, p), gp)

(* splay: one unfolding per iteration of the while loop. *)
RECURSIVE splay(_, _)
splay(T, x) ==
    IF T.parent[x] = 0 THEN T ELSE splay(splay_iteration(T, x), x)

(* "find actual root": climbs the parent links from top. *)
RECURSIVE splay_top(_, _)
splay_top(T, top) ==
    IF T.parent[top] # 0 THEN splay_top(T, T.parent[top]) ELSE top

(* The descent loop of insert_splay: the last node on the search path. *)
RECURSIVE splay_descend(_, _, _, _)
splay_descend(T, cur, parent, key) ==
    IF cur # 0
      THEN splay_descend(T, IF key < T.key[cur] THEN T.left[cur] ELSE T.right[cur],
                         cur, key)
      ELSE parent

(* insert_splay on a non-empty tree up to its splay call: the new node hangs
   under the last node of the search path. *)
insert_splay_attach(T, key) ==
    LET new_node == Len(T.key) + 1
        parent == splay_descend(T, T.root, 0, key)
        T1 == [SplayNode(T, key) EXCEPT !.parent[new_node] = parent]
    IN IF parent # 0
         THEN IF key < T1.key[parent]
                THEN [T1 EXCEPT !.left[parent] = new_node]
                ELSE [T1 EXCEPT !.right[parent] = new_node]
         ELSE T1

(* Returns the arena after the call, T.root being the node the call returns. *)
insert_splay(T, key) ==
    LET new_node == Len(T.key) + 1
    IN IF T.root = 0 THEN [SplayNode(T, key) EXCEPT !.root = new_node]
       ELSE LET T3 == splay(insert_splay_attach(T, key), new_node)
            IN [T3 EXCEPT !.root = splay_top(T3, new_node)]

(* The node search_splay passes to splay: the node holding key, or on a miss
   the last node visited; 0 on the empty tree. *)
RECURSIVE search_splay_node(_, _, _, _)
search_splay_node(T, cur, last, key) ==
    IF cur # 0
      THEN IF key = T.key[cur] THEN cur
           ELSE search_splay_node(T, IF key < T.key[cur] THEN T.left[cur]
                                                         ELSE T.right[cur],
                                  cur, key)
      ELSE last

(* search_splay that on a miss returns the root it was given, without
   splaying the last node visited. *)
RECURSIVE search_splay_miss_keeps_root(_, _, _, _)
search_splay_miss_keeps_root(T, cur, last, key) ==
    IF cur # 0
      THEN IF key = T.key[cur]
             THEN LET T1 == splay(T, cur)
                  IN [T1 EXCEPT !.root = splay_top(T1, cur)]
             ELSE search_splay_miss_keeps_root(T, IF key < T.key[cur] THEN T.left[cur]
                                                                      ELSE T.right[cur],
                                               cur, key)
    ELSE T

(* The loop of search_splay from cur on, last being the node visited before. *)
RECURSIVE search_splay_from(_, _, _, _)
search_splay_from(T, cur, last, key) ==
    IF cur # 0
      THEN IF key = T.key[cur]
             THEN LET T1 == splay(T, cur)
                  IN [T1 EXCEPT !.root = splay_top(T1, cur)]
             ELSE search_splay_from(T, IF key < T.key[cur] THEN T.left[cur]
                                                           ELSE T.right[cur],
                                    cur, key)
    ELSE IF last # 0
      THEN LET T1 == splay(T, last)
           IN [T1 EXCEPT !.root = splay_top(T1, last)]
    ELSE [T EXCEPT !.root = 0]

(* Returns the arena after the call, T.root being the node the call returns. *)
search_splay(T, key) == search_splay_from(T, T.root, 0, key)

(* Number of parent links from n up to the top of its tree. *)
RECURSIVE ArenaDepth(_, _, _)
ArenaDepth(T, n, fuel) ==
    IF fuel = 0 \/ T.parent[n] = 0 THEN 0
    ELSE 1 + ArenaDepth(T, T.parent[n], fuel - 1)

SplayDepth(T, n) == ArenaDepth(T, n, Len(T.key))

(* In-order key sequence from the root the caller holds. *)
SplayInOrder(T) == ArenaInOrder(T, T.root, Len(T.key))

(***************************************************************************)
(* State machine.                                                          *)
(***************************************************************************)
AvlKeys == 1..AvlMaxKey
BstKeys == 1..BstMaxKey
RbKeys == 1..RbMaxKey
BtKeys == 1..BtMaxKey
TreapKeys == 1..TreapMaxKey
TreapPriorities == 1..TreapMaxPriority
SbKeys == 1..SbMaxKey
SplayKeys == 1..SplayMaxKey
SplayLoopKeys == 1..SplayLoopMaxKey
PbKeys == 1..PbMaxKey
T23Keys == 1..T23MaxKey
PqKeys == 1..PqMaxKey
PqPriorities == 1..PqMaxPriority

(* Keys searched for: every key that can be inserted and one below and one
   above the range. *)
BstProbes == 0..(BstMaxKey + 1)
BtProbes == 0..(BtMaxKey + 1)
PbProbes == 0..(PbMaxKey + 1)

(* No search call has been made since the tree last changed. *)
NoSearch == [fn |-> "none", key |-> 0, hit |-> FALSE]

(* ratio = 2.0, the default of insert_sizebst and fix_sizebalance *)
SbDefaultRatio == [num |-> 2, den |-> 1]

(* The ratios a caller passes: 1.5, 2.0 and 3.0. *)
SbRatios == {[num |-> 3, den |-> 2], SbDefaultRatio, [num |-> 3, den |-> 1]}

InitTrees ==
    /\ avl_root = None
    /\ avl_inserted = EmptyBag(AvlKeys)
    /\ avl_last = [key |-> 0, rotated |-> FALSE, log |-> <<>>]
    /\ bst_root = None
    /\ bst_live = {}
    /\ bst_hist = [ops |-> 0, dups |-> FALSE, misses |-> FALSE,
                   two |-> FALSE, trip |-> "insert"]
    /\ bst_search = NoSearch
    /\ pbst = PbEmpty
    /\ pbst_search = NoSearch
    /\ rb = RbEmpty
    /\ rb_hist = [dups |-> FALSE, inserted |-> EmptyBag(RbKeys)]
    /\ bt_root = None
    /\ bt_inserted = EmptyBag(BtKeys)
    /\ bt_search = NoSearch
    /\ treap_root = None
    /\ treap_hist = [n |-> 0, rotated |-> FALSE, inserted |-> EmptyBag(TreapKeys)]
    /\ sb_root = None
    /\ sb_inserted = EmptyBag(SbKeys)
    /\ splay_tree = SplayEmpty
    /\ splay_last = [op |-> "none", key |-> 0, hit |-> FALSE, before |-> <<>>]
    /\ t23_root = None
    /\ t23_inserted = EmptyBag(T23Keys)
    /\ t23_failed = FALSE
    /\ pq_root = None
    /\ pq_last = [op |-> "none", key |-> NoKey, rotated |-> FALSE]
    /\ splay_x = 0
    /\ splay_run = [op |-> "none", step |-> "none", depth |-> 0]

(* No merge_treap call is under study. *)
NotMerged == [merged |-> FALSE]
NoMerge == mg_left = None /\ mg_right = None /\ mg_out = NotMerged

Init == InitTrees /\ bt_t = BtMinT /\ sb_ratio = SbDefaultRatio /\ NoMerge

(* The B-tree's caller fixes the minimum degree before the first insert. *)
InitBTree == InitTrees /\ bt_t \in BtMinT..BtMaxT /\ sb_ratio = SbDefaultRatio /\ NoMerge

(* The size-balanced tree's caller fixes the ratio before the first insert. *)
InitSizeBST == InitTrees /\ bt_t = BtMinT /\ sb_ratio \in SbRatios /\ NoMerge

AvlVars == <<avl_root, avl_inserted, avl_last>>
BstVars == <<bst_root, bst_live, bst_hist, bst_search>>
PbVars == <<pbst, pbst_search>>
RbVars == <<rb, rb_hist>>
BtVars == <<bt_root, bt_t, bt_inserted, bt_search>>
TreapVars == <<treap_root, treap_hist>>
SbVars == <<sb_root, sb_ratio, sb_inserted>>
SplayVars == <<splay_tree, splay_last>>
T23Vars == <<t23_root, t23_inserted, t23_failed>>
PqVars == <<pq_root, pq_last>>
MergeVars == <<mg_left, mg_right, mg_out>>
SplayLoopVars == <<splay_x, splay_run>>

(* root = insert_avl(root, key) *)
AvlInsert ==
    /\ BagSize(avl_inserted) < AvlMaxInserts
    /\ \E key \in AvlKeys :
         /\ avl_root' = insert_avl(avl_root, key)
         /\ avl_inserted' = [avl_inserted EXCEPT ![key] = @ + 1]
         /\ avl_last' = [key |-> key,
                         rotated |-> insert_avl(avl_root, key) # AvlPlaced(avl_root, key),
                         log |-> AvlRebalancings(avl_root, key)]
    /\ UNCHANGED <<BstVars, RbVars, BtVars, TreapVars, SbVars, SplayVars, PbVars, T23Vars,
                   PqVars, MergeVars, SplayLoopVars>>

NextAVL == AvlInsert

SpecAVL == Init /\ [][NextAVL]_vars

(* The node holding key, in a tree whose keys are distinct and BST-ordered. *)
RECURSIVE BstFind(_, _)
BstFind(node, key) ==
    IF node = None THEN None
    ELSE IF key < node.key THEN BstFind(node.left, key)
    ELSE IF key > node.key THEN BstFind(node.right, key)
    ELSE node

(* bst.insert(key) *)
BstInsert ==
    /\ bst_hist.ops < BstMaxOps
    /\ \E key \in BstKeys :
         /\ bst_root' = _insert_recursive(bst_root, key)
         /\ bst_live' = bst_live \cup {key}
         /\ bst_hist' = [bst_hist EXCEPT
                           !.ops = @ + 1,
                           !.dups = @ \/ key \in bst_live,
                           !.trip = IF @ = "insert" /\ key \notin bst_live
                                      THEN "insert" ELSE "broken"]
         /\ bst_search' = NoSearch
    /\ UNCHANGED <<AvlVars, RbVars, BtVars, TreapVars, SbVars, SplayVars, PbVars, T23Vars,
                   PqVars, MergeVars, SplayLoopVars>>

(* bst.delete(key) *)
BstDelete ==
    /\ bst_hist.ops < BstMaxOps
    /\ \E key \in BstKeys :
         /\ bst_root' = _delete_recursive(bst_root, key)
         /\ bst_live' = bst_live \ {key}
         /\ bst_hist' = [bst_hist EXCEPT
                           !.ops = @ + 1,
                           !.misses = @ \/ key \notin bst_live,
                           !.two = @ \/ LET n == BstFind(bst_root, key)
                                        IN n # None /\ n.left # None /\ n.right # None,
                           !.trip = IF @ # "broken" /\ key \in bst_live
                                      THEN "delete" ELSE "broken"]
         /\ bst_search' = NoSearch
    /\ UNCHANGED <<AvlVars, RbVars, BtVars, TreapVars, SbVars, SplayVars, PbVars, T23Vars,
                   PqVars, MergeVars, SplayLoopVars>>

NextBST == BstInsert \/ BstDelete

SpecBST == Init /\ [][NextBST]_vars

(* root = insert_rb(root, key) *)
RbInsert ==
    /\ Len(rb.key) < RbMaxInserts
    /\ \E key \in RbKeys :
         /\ rb' = insert_rb(rb, key)
         /\ rb_hist' = [rb_hist EXCEPT !.dups = @ \/ key \in SeqToSet(rb.key),
                                       !.inserted[key] = @ + 1]
    /\ UNCHANGED <<AvlVars, BstVars, BtVars, TreapVars, SbVars, SplayVars, PbVars, T23Vars,
                   PqVars, MergeVars, SplayLoopVars>>

NextRB == RbInsert

SpecRB == Init /\ [][NextRB]_vars

(* root = btree_insert(root, key, t) *)
BtInsert ==
    /\ BagSize(bt_inserted) < BtMaxInserts
    /\ \E key \in BtKeys :
         /\ bt_root' = btree_insert(bt_root, key, bt_t)
         /\ bt_inserted' = [bt_inserted EXCEPT ![key] = @ + 1]
         /\ bt_search' = NoSearch
    /\ UNCHANGED <<AvlVars, BstVars, RbVars, bt_t, TreapVars, SbVars, SplayVars, PbVars, T23Vars,
                   PqVars, MergeVars, SplayLoopVars>>

NextBTree == BtInsert

SpecBTree == InitBTree /\ [][NextBTree]_vars

(* root = insert_treap(root, key), the new node drawing priority *)
TreapInsert ==
    /\ treap_hist.n < TreapMaxInserts
    /\ \E key \in TreapKeys, priority \in TreapPriorities :
         /\ treap_root' = insert_treap(treap_root, key, priority)
         /\ treap_hist' = [n |-> treap_hist.n + 1,
                           rotated |-> treap_hist.rotated
                               \/ insert_treap(treap_root, key, priority)
                                    # TreapPlaced(treap_root, key, priority),
                           inserted |-> [treap_hist.inserted EXCEPT ![key] = @ + 1]]
    /\ UNCHANGED <<AvlVars, BstVars, RbVars, BtVars, SbVars, SplayVars, PbVars, T23Vars,
                   PqVars, MergeVars, SplayLoopVars>>

NextTreap == TreapInsert

SpecTreap == Init /\ [][NextTreap]_vars

(* root = insert_sizebst(root, key, ratio) *)
SbInsert ==
    /\ BagSize(sb_inserted) < SbMaxInserts
    /\ \E key \in SbKeys :
         /\ sb_root' = insert_sizebst(sb_root, key, sb_ratio)
         /\ sb_inserted' = [sb_inserted EXCEPT ![key] = @ + 1]
    /\ UNCHANGED <<AvlVars, BstVars, RbVars, BtVars, TreapVars, sb_ratio, SplayVars, PbVars, T23Vars,
                   PqVars, MergeVars, SplayLoopVars>>

NextSizeBST == SbInsert

SpecSizeBST == InitSizeBST /\ [][NextSizeBST]_vars

(* root = insert_splay(root, key) *)
SplayInsert ==
    /\ Len(splay_tree.key) < SplayMaxInserts
    /\ \E key \in SplayKeys :
         /\ splay_tree' = insert_splay(splay_tree, key)
         /\ splay_last' = [op |-> "insert", key |-> key,
                           hit |-> key \in SeqToSet(splay_tree.key),
                           before |-> SplayInOrder(splay_tree)]
    /\ UNCHANGED <<AvlVars, BstVars, RbVars, BtVars, TreapVars, SbVars, PbVars, T23Vars,
                   PqVars, MergeVars, SplayLoopVars>>

(* root = search_splay(root, key) *)
SplaySearch ==
    /\ \E key \in SplayKeys :
         /\ splay_tree' = search_splay(splay_tree, key)
         /\ splay_last' = [op |-> "search", key |-> key,
                           hit |-> key \in SeqToSet(splay_tree.key),
                           before |-> SplayInOrder(splay_tree)]
    /\ UNCHANGED <<AvlVars, BstVars, RbVars, BtVars, TreapVars, SbVars, PbVars, T23Vars,
                   PqVars, MergeVars, SplayLoopVars>>

NextSplay == SplayInsert \/ SplaySearch

SpecSplay == Init /\ [][NextSplay]_vars

(* tree.insert(key) on the BST with parent pointers *)
PbInsert ==
    /\ \E key \in PbKeys :
         /\ pbst' = insert(pbst, key)
         /\ pbst_search' = NoSearch
    /\ UNCHANGED <<AvlVars, BstVars, RbVars, BtVars, TreapVars, SbVars, SplayVars, T23Vars,
                   PqVars, MergeVars, SplayLoopVars>>

NextParentBST == PbInsert

SpecParentBST == Init /\ [][NextParentBST]_vars

(* A search that, on finding the key below the root, rotates the root one
   step towards it, as a self-adjusting tree would. *)
BstSearchAdjusting ==
    /\ \E key \in BstProbes :
         /\ bst_search' = [fn |-> "search", key |-> key, hit |-> search(bst_root, key)]
         /\ bst_root' =
              IF search(bst_root, key) /\ key < bst_root.key
                THEN [bst_root.left EXCEPT !.right = [bst_root EXCEPT !.left = bst_root.left.right]]
              ELSE IF search(bst_root, key) /\ key > bst_root.key
                THEN [bst_root.right EXCEPT !.left = [bst_root EXCEPT !.right = bst_root.right.left]]
              ELSE bst_root
    /\ UNCHANGED <<bst_live, bst_hist>>
    /\ UNCHANGED <<AvlVars, RbVars, BtVars, TreapVars, SbVars, SplayVars, PbVars, T23Vars,
                   PqVars, MergeVars, SplayLoopVars>>

(* bst.search(key): reads the tree, assigns to no node and not to BST.root *)
BstSearch ==
    /\ \E key \in BstProbes :
         bst_search' = [fn |-> "search", key |-> key, hit |-> search(bst_root, key)]
    /\ UNCHANGED <<bst_root, bst_live, bst_hist>>
    /\ UNCHANGED <<AvlVars, RbVars, BtVars, TreapVars, SbVars, SplayVars, PbVars, T23Vars,
                   PqVars, MergeVars, SplayLoopVars>>

(* tree.search_recursive(key) *)
PbSearchRecursive ==
    /\ \E key \in PbProbes :
         pbst_search' = [fn |-> "search_recursive", key |-> key,
                         hit |-> search_recursive(pbst, key)]
    /\ UNCHANGED pbst
    /\ UNCHANGED <<AvlVars, BstVars, RbVars, BtVars, TreapVars, SbVars, SplayVars, T23Vars,
                   PqVars, MergeVars, SplayLoopVars>>

(* tree.search_iterative(key) *)
PbSearchIterative ==
    /\ \E key \in PbProbes :
         pbst_search' = [fn |-> "search_iterative", key |-> key,
                         hit |-> search_iterative(pbst, key)]
    /\ UNCHANGED pbst
    /\ UNCHANGED <<AvlVars, BstVars, RbVars, BtVars, TreapVars, SbVars, SplayVars, T23Vars,
                   PqVars, MergeVars, SplayLoopVars>>

(* btree_search(root, key) *)
BtSearch ==
    /\ \E key \in BtProbes :
         bt_search' = [fn |-> "btree_search", key |-> key,
                       hit |-> btree_search(bt_root, key)]
    /\ UNCHANGED <<bt_root, bt_t, bt_inserted>>
    /\ UNCHANGED <<AvlVars, BstVars, RbVars, TreapVars, SbVars, SplayVars, PbVars, T23Vars,
                   PqVars, MergeVars, SplayLoopVars>>

(* The trees with a search that only reads - the plain BST, the BST with
   parent pointers, the B-tree - under inserts, deletes and searches.  A run
   works on one of the three (the others stay as Init left them); the B-tree
   is kept to SearchBtMaxInserts keys. *)
BstUntouched == bst_hist.ops = 0 /\ bst_search = NoSearch
PbUntouched == pbst = PbEmpty /\ pbst_search = NoSearch
BtUntouched == bt_root = None /\ bt_search = NoSearch

NextSearch ==
    \/ PbUntouched /\ BtUntouched /\ BstInsert
    \/ PbUntouched /\ BtUntouched /\ BstDelete
    \/ PbUntouched /\ BtUntouched /\ BstSearch
    \/ BstUntouched /\ BtUntouched /\ PbInsert
    \/ BstUntouched /\ BtUntouched /\ PbSearchRecursive
    \/ BstUntouched /\ BtUntouched /\ PbSearchIterative
    \/ BstUntouched /\ PbUntouched /\ BagSize(bt_inserted) < SearchBtMaxInserts /\ BtInsert
    \/ BstUntouched /\ PbUntouched /\ BtSearch

SpecSearch == Init /\ [][NextSearch]_vars

(* The four rebalancing binary trees - AVL, red-black, treap, size-balanced
   with the default ratio - under inserts.  A run works on one of the four
   (the others stay empty) and makes at most BalancedMaxInserts calls. *)
NextBalanced ==
    \/ /\ rb = RbEmpty /\ treap_root = None /\ sb_root = None
       /\ BagSize(avl_inserted) < BalancedMaxInserts
       /\ AvlInsert
    \/ /\ avl_root = None /\ treap_root = None /\ sb_root = None
       /\ Len(rb.key) < BalancedMaxInserts
       /\ RbInsert
    \/ /\ avl_root = None /\ rb = RbEmpty /\ sb_root = None
       /\ treap_hist.n < BalancedMaxInserts
       /\ TreapInsert
    \/ /\ avl_root = None /\ rb = RbEmpty /\ treap_root = None
       /\ BagSize(sb_inserted) < BalancedMaxInserts
       /\ SbInsert

SpecBalanced == Init /\ [][NextBalanced]_vars

(* root = insert_23(root, x); an IndexError ends the caller's loop *)
T23Insert ==
    /\ ~t23_failed
    /\ BagSize(t23_inserted) < T23MaxInserts
    /\ \E key \in T23Keys :
         LET r == insert_23(t23_root, key)
         IN /\ t23_root' = r.node
            /\ t23_failed' = r.failed
            /\ t23_inserted' = [t23_inserted EXCEPT ![key] = @ + 1]
    /\ UNCHANGED <<AvlVars, BstVars, RbVars, BtVars, TreapVars, SbVars, SplayVars, PbVars,
                   PqVars, MergeVars, SplayLoopVars>>

NextTwo3 == T23Insert

SpecTwo3 == Init /\ [][NextTwo3]_vars

(* insert_splay(root, key) called: it runs up to its call of splay(new_node),
   or returns at once on the empty tree. *)
SplayCallInsert ==
    /\ splay_x = 0
    /\ Len(splay_tree.key) < SplayLoopMaxInserts
    /\ \E key \in SplayLoopKeys :
         IF splay_tree.root = 0
           THEN /\ splay_tree' = insert_splay(splay_tree, key)
                /\ splay_x' = 0
           ELSE /\ splay_tree' = insert_splay_attach(splay_tree, key)
                /\ splay_x' = Len(splay_tree.key) + 1
    /\ splay_run' = [op |-> "insert", step |-> "none", depth |-> 0]
    /\ UNCHANGED splay_last
    /\ UNCHANGED <<AvlVars, BstVars, RbVars, BtVars, TreapVars, SbVars, PbVars, T23Vars,
                   PqVars, MergeVars>>

(* search_splay(root, key) called: it runs up to its call of splay(cur) or
   splay(last), or returns None at once on the empty tree. *)
SplayCallSearch ==
    /\ splay_x = 0
    /\ \E key \in SplayLoopKeys :
         LET x == search_splay_node(splay_tree, splay_tree.root, 0, key)
         IN /\ splay_x' = x
            /\ splay_tree' = IF x = 0 THEN [splay_tree EXCEPT !.root = 0] ELSE splay_tree
    /\ splay_run' = [op |-> "search", step |-> "none", depth |-> 0]
    /\ UNCHANGED splay_last
    /\ UNCHANGED <<AvlVars, BstVars, RbVars, BtVars, TreapVars, SbVars, PbVars, T23Vars,
                   PqVars, MergeVars>>

(* One iteration of the loop of the running splay(x) call. *)
SplayIteration ==
    /\ splay_x # 0
    /\ splay_tree.parent[splay_x] # 0
    /\ splay_tree' = splay_iteration(splay_tree, splay_x)
    /\ splay_run' = [splay_run EXCEPT !.step = splay_step_kind(splay_tree, splay_x),
                                      !.depth = SplayDepth(splay_tree, splay_x)]
    /\ UNCHANGED <<splay_x, splay_last>>
    /\ UNCHANGED <<AvlVars, BstVars, RbVars, BtVars, TreapVars, SbVars, PbVars, T23Vars,
                   PqVars, MergeVars>>

(* The loop of splay(x) ends; the caller climbs to the top and returns it. *)
SplayReturn ==
    /\ splay_x # 0
    /\ splay_tree.parent[splay_x] = 0
    /\ splay_tree' = [splay_tree EXCEPT !.root = splay_top(splay_tree, splay_x)]
    /\ splay_x' = 0
    /\ UNCHANGED <<splay_run, splay_last>>
    /\ UNCHANGED <<AvlVars, BstVars, RbVars, BtVars, TreapVars, SbVars, PbVars, T23Vars,
                   PqVars, MergeVars>>

NextSplayLoop == SplayCallInsert \/ SplayCallSearch \/ SplayIteration \/ SplayReturn

SpecSplayLoop == Init /\ [][NextSplayLoop]_vars

(* A running splay call is not held up: its loop goes on to the next iteration
   and, once the loop ends, the call returns. *)
SpecSplayLoopFair ==
    SpecSplayLoop /\ WF_vars(SplayIteration) /\ WF_vars(SplayReturn)

(* root = treap_insert(root, x); the queue holds at most PqMaxNodes keys *)
PqInsert ==
    /\ Size(pq_root) < PqMaxNodes
    /\ \E key \in PqKeys, priority \in PqPriorities :
         /\ pq_root' = treap_insert(pq_root, key, priority)
         /\ pq_last' = [op |-> "insert", key |-> key, rotated |-> FALSE]
    /\ UNCHANGED <<AvlVars, BstVars, RbVars, BtVars, TreapVars, SbVars, SplayVars, PbVars,
                   T23Vars, MergeVars, SplayLoopVars>>

(* root, mn = extract_min(root) *)
PqExtractMin ==
    /\ pq_root' = extract_min(pq_root).root
    /\ pq_last' = [op |-> "extract_min", key |-> extract_min(pq_root).min_key,
                   rotated |-> pq_root # None
                       /\ treap_splay_to_root(pq_root, find_min(pq_root).key) # pq_root]
    /\ UNCHANGED <<AvlVars, BstVars, RbVars, BtVars, TreapVars, SbVars, SplayVars, PbVars,
                   T23Vars, MergeVars, SplayLoopVars>>

(* The treaps of exactly n nodes with keys in lo..hi and priorities from minp
   up that are BST-ordered (equal keys on either side, as the rotations of
   treap_insert leave them) and min-heap-ordered. *)
RECURSIVE MgTreaps(_, _, _, _)
MgTreaps(lo, hi, minp, n) ==
    IF n = 0 THEN {None}
    ELSE UNION { { [key |-> k, priority |-> p, left |-> l, right |-> r] :
                     l \in MgTreaps(lo, k, p, nl), r \in MgTreaps(k, hi, p, n - 1 - nl) } :
                 k \in lo..hi, p \in minp..MgMaxPriority, nl \in 0..(n - 1) }

(* The two arguments of the merge_treap call: any two such treaps of at most
   MgMaxNodes nodes together. *)
InitMerge ==
    /\ InitTrees /\ bt_t = BtMinT /\ sb_ratio = SbDefaultRatio
    /\ mg_out = NotMerged
    /\ \E n \in 0..MgMaxNodes, m \in 0..MgMaxNodes :
         /\ n + m <= MgMaxNodes
         /\ mg_left \in MgTreaps(1, MgMaxKey, 1, n)
         /\ mg_right \in MgTreaps(1, MgMaxKey, 1, m)

(* root = merge_treap(left_sub, right_sub) *)
MergeCall ==
    /\ ~mg_out.merged
    /\ mg_out' = [merged |-> TRUE, root |-> merge_treap(mg_left, mg_right)]
    /\ UNCHANGED <<mg_left, mg_right>>
    /\ UNCHANGED <<AvlVars, BstVars, RbVars, BtVars, TreapVars, SbVars, SplayVars, PbVars,
                   T23Vars, PqVars, SplayLoopVars>>

NextMerge == MergeCall

SpecMerge == InitMerge /\ [][NextMerge]_vars

NextPQ == PqInsert \/ PqExtractMin

SpecPQ == Init /\ [][NextPQ]_vars

(***************************************************************************)
(* Properties.                                                             *)
(***************************************************************************)
AvlDistinct == \A k \in AvlKeys : avl_inserted[k] <= 1

AVLBalanced(root) ==
    \A n \in Subtrees(root) : Abs(Height(n.left) - Height(n.right)) <= 1

(* C1: with pairwise distinct keys, after every insert_avl call every node has
   |height(left) - height(right)| <= 1 (absent subtree 0, leaf 1). *)
C1_AvlBalancedDistinct == AvlDistinct => AVLBalanced(avl_root)

(* C1 witness: distinct keys, at least five of them, the last call rotated. *)
C1_Witness ==
    /\ AvlDistinct
    /\ BagSize(avl_inserted) >= 5
    /\ avl_last.rotated
    /\ Height(avl_root) = 3

(* C10: the AVL balance holds after any sequence of insert_avl calls, also when
   keys repeat. *)
C10_AvlBalancedAlways == AVLBalanced(avl_root)

(* The keys of the bag in ascending order, each once. *)
RECURSIVE SortedKeys(_)
SortedKeys(S) ==
    IF S = {} THEN <<>>
    ELSE LET m == CHOOSE m \in S : \A k \in S : m <= k
         IN <<m>> \o SortedKeys(S \ {m})

AvlLeaf(n, key) ==
    n # None /\ n.key = key /\ n.height = 1 /\ n.left = None /\ n.right = None

(* A step that completes the third insert of three pairwise distinct keys. *)
C16_ThirdInsert ==
    (AvlDistinct' /\ BagSize(avl_inserted') = 3 /\ BagSize(avl_inserted) = 2) =>
        LET ks == SortedKeys({k \in AvlKeys : avl_inserted'[k] = 1})
            ascending == /\ avl_root.left = None
                         /\ avl_root.right # None
                         /\ avl_last'.key > avl_root.right.key
        IN /\ avl_root'.key = ks[2]
           /\ avl_root'.height = 2
           /\ AvlLeaf(avl_root'.left, ks[1])
           /\ AvlLeaf(avl_root'.right, ks[3])
           /\ ascending =>
                /\ Len(avl_last'.log) = 1
                /\ avl_last'.log[1].kind = "left"
                /\ avl_last'.log[1].at = avl_root.key
                /\ avl_root'.key = avl_root.right.key
                /\ InOrder(avl_root') = <<avl_root.key, avl_root.right.key, avl_last'.key>>

(* C16: three pairwise distinct keys inserted into an empty AVL tree, in any
   of the six orders, give the tree whose root is the median key with cached
   height 2 and whose children are leaves of height 1; in ascending order
   (the tree before the third insert is a root with a right child only, the
   third key larger than both) this takes exactly one left rotation, at the
   old root, the old right child becomes the root and the in-order sequence
   is the three keys in ascending order. *)
C16_ThreeKeysMedianRoot == [][C16_ThirdInsert]_vars

(* C16 witness: three distinct keys went in, the third by a left rotation at
   the old root, which is now the left child. *)
C16_Witness ==
    /\ AvlDistinct
    /\ BagSize(avl_inserted) = 3
    /\ Len(avl_last.log) = 1
    /\ avl_last.log[1].kind = "left"
    /\ avl_root.left # None
    /\ avl_last.log[1].at = avl_root.left.key
    /\ avl_last.key = avl_root.right.key

(* A step that inserts a key, all keys so far being pairwise distinct. *)
C20_DistinctInsert ==
    (AvlDistinct' /\ avl_inserted' # avl_inserted) =>
        /\ Len(avl_last'.log) <= 1
        /\ \A i \in 1..Len(avl_last'.log) :
             avl_last'.log[i].after = avl_last'.log[i].before

(* C20: a single insert_avl call of a new key into a tree built from
   pairwise distinct keys rebalances at no more than one node of the
   insertion path (a double rotation counting as one rebalancing), so no
   ancestor of that node rotates in the same call, and the rebalanced subtree
   is as high as the subtree in its place was before the call. *)
C20_AtMostOneRebalancing == [][C20_DistinctInsert]_vars

(* C20 witness: distinct keys, the last call made a double rotation at a node
   below the root of a tree of height 3 and six keys. *)
C20_Witness ==
    /\ AvlDistinct
    /\ BagSize(avl_inserted) = 6
    /\ Height(avl_root) = 3
    /\ Len(avl_last.log) = 1
    /\ avl_last.log[1].kind \in {"left_right", "right_left"}
    /\ avl_last.log[1].after < Height(avl_root)

(* C7: after any interleaving of insert and delete calls on the plain BST,
   duplicates and misses included, in_order() is strictly ascending and holds
   exactly the keys inserted and not deleted afterwards. *)
C7_BstOrderAndContent ==
    /\ StrictlyAscending(in_order(bst_root))
    /\ SeqToSet(in_order(bst_root)) = bst_live
    /\ Len(in_order(bst_root)) = Cardinality(bst_live)

(* C7 witness: a duplicate insert, a missed delete and a delete of a node with
   two children have all happened, and keys remain. *)
C7_Witness ==
    /\ bst_hist.dups
    /\ bst_hist.misses
    /\ bst_hist.two
    /\ Cardinality(bst_live) >= 2

(* C8: inserting a set S of keys (each once, any order) and then deleting
   every key of S once (any order) leaves root None and in_order() empty. *)
C8_BstRoundTrip ==
    (bst_hist.trip # "broken" /\ bst_live = {})
        => (bst_root = None /\ in_order(bst_root) = <<>>)

(* C8 witness: a round trip over three keys or more that deleted a node with
   two children has completed. *)
C8_Witness ==
    /\ bst_hist.trip = "delete"
    /\ bst_live = {}
    /\ bst_hist.ops >= 6
    /\ bst_hist.two
    /\ bst_root = None

(* C13: after any sequence of insert and delete calls on the plain BST,
   search(k) is True exactly when k was inserted and not deleted afterwards;
   on the empty tree it is False for every key. *)
C13_BstSearchIffLive ==
    \A k \in BstProbes : search(bst_root, k) <=> k \in bst_live

(* C13 witness: after a duplicate insert and a delete of a node with two
   children, a search hits a key stored below the root and misses a key that
   is not in the tree. *)
C13_Witness ==
    /\ bst_hist.dups
    /\ bst_hist.two
    /\ Cardinality(bst_live) >= 3
    /\ \E k \in bst_live : k # bst_root.key /\ search(bst_root, k)
    /\ \E k \in BstKeys \ bst_live : ~search(bst_root, k)

(* A step in which a search call returned: inserts and deletes clear the
   record of the last search, a search fills it. *)
C14_SearchStep ==
    /\ bst_search' # NoSearch =>
         /\ bst_root' = bst_root
         /\ in_order(bst_root') = in_order(bst_root)
         /\ (bst_search # NoSearch /\ bst_search'.key = bst_search.key)
              => bst_search'.hit = bst_search.hit
    /\ pbst_search' # NoSearch =>
         /\ pbst' = pbst
         /\ ArenaInOrder(pbst', pbst'.root, Len(pbst'.key))
              = ArenaInOrder(pbst, pbst.root, Len(pbst.key))
         /\ (pbst_search # NoSearch /\ pbst_search'.key = pbst_search.key)
              => pbst_search'.hit = pbst_search.hit
    /\ bt_search' # NoSearch =>
         /\ bt_root' = bt_root
         /\ inorder_traverse(bt_root', <<>>) = inorder_traverse(bt_root, <<>>)
         /\ (bt_search # NoSearch /\ bt_search'.key = bt_search.key)
              => bt_search'.hit = bt_search.hit

(* C14: a call of BST.search (plain BST), of search_recursive or
   search_iterative (BST with parent pointers) or of btree_search leaves
   every node, key and link as it was, so the in-order traversal is the same
   before and after, and a repeated call with the same key and no insert or
   delete in between gives the same answer. *)
C14_SearchLeavesTreeUnchanged == [][C14_SearchStep]_vars

(* C14 witness: on the plain BST, after a delete of a node with two children,
   a search has found a key stored below the root. *)
C14_Witness ==
    /\ bst_search.fn = "search"
    /\ bst_search.hit
    /\ bst_hist.two
    /\ bst_root # None
    /\ bst_search.key # bst_root.key

PbNodes == 1..Len(pbst.key)

(* The node of the BST with parent pointers that holds key k. *)
PbNodeOf(k) == CHOOSE m \in PbNodes : pbst.key[m] = k

(* C17: in the BST with parent pointers built by any sequence of insert
   calls, for every node n, successor(n) is the node holding the smallest key
   greater than n.key, None when n holds the maximum, and predecessor(n) is
   the node holding the largest key smaller than n.key, None when n holds the
   minimum. *)
C17_SuccessorPredecessor ==
    \A n \in PbNodes :
        LET greater == {pbst.key[m] : m \in {m \in PbNodes : pbst.key[m] > pbst.key[n]}}
            smaller == {pbst.key[m] : m \in {m \in PbNodes : pbst.key[m] < pbst.key[n]}}
        IN /\ successor(pbst, n) =
                IF greater = {} THEN 0
                ELSE PbNodeOf(CHOOSE k \in greater : \A j \in greater : k <= j)
           /\ predecessor(pbst, n) =
                IF smaller = {} THEN 0
                ELSE PbNodeOf(CHOOSE k \in smaller : \A j \in smaller : k >= j)

(* C17 witness: a tree of five keys or more in which one node without a right
   subtree finds its successor more than one parent link up, one node without
   a left subtree finds its predecessor more than one link up, and one node
   finds its successor down in its right subtree. *)
C17_Witness ==
    /\ Len(pbst.key) >= 5
    /\ \E n \in PbNodes :
         /\ pbst.right[n] = 0
         /\ successor(pbst, n) # 0
         /\ successor(pbst, n) # pbst.parent[n]
    /\ \E n \in PbNodes :
         /\ pbst.left[n] = 0
         /\ predecessor(pbst, n) # 0
         /\ predecessor(pbst, n) # pbst.parent[n]
    /\ \E n \in PbNodes :
         /\ pbst.right[n] # 0
         /\ successor(pbst, n) # pbst.right[n]
    /\ successor(pbst, max_node(pbst)) = 0
    /\ predecessor(pbst, min_node(pbst)) = 0

(* The nodes of an arena tree reachable from n by child links, looking at most
   fuel levels down (an arena of k nodes that is a tree has depth <= k). *)
RECURSIVE ArenaNodes(_, _, _)
ArenaNodes(T, n, fuel) ==
    IF n = 0 \/ fuel = 0 THEN {}
    ELSE {n} \cup ArenaNodes(T, T.left[n], fuel - 1)
             \cup ArenaNodes(T, T.right[n], fuel - 1)

RbNodes == ArenaNodes(rb, rb.root, Len(rb.key))

(* The numbers of BLACK nodes on the paths from n down to a None position. *)
RECURSIVE BlackCounts(_, _, _)
BlackCounts(T, n, fuel) ==
    IF n = 0 THEN {0}
    ELSE IF fuel = 0 THEN {-1, -2}
    ELSE {c + (IF T.color[n] = BLACK THEN 1 ELSE 0) :
            c \in BlackCounts(T, T.left[n], fuel - 1)
                    \cup BlackCounts(T, T.right[n], fuel - 1)}

(* C2: after every insert_rb call, repeated keys included, the returned root
   is BLACK and no RED node has a RED child. *)
C2_RbRootBlackNoRedRed ==
    rb.root # 0 =>
        /\ rb.color[rb.root] = BLACK
        /\ \A n \in RbNodes :
             rb.color[n] = RED =>
                 /\ rb.left[n] # 0 => rb.color[rb.left[n]] = BLACK
                 /\ rb.right[n] # 0 => rb.color[rb.right[n]] = BLACK

(* C2 witness: eight inserts with a repeated key, the root replaced by a
   rotation, and RED nodes present at depth two or more. *)
C2_Witness ==
    /\ Len(rb.key) = 8
    /\ rb_hist.dups
    /\ rb.root # 1
    /\ Cardinality(RbNodes) = 8
    /\ \E n \in RbNodes : rb.color[n] = RED /\ rb.parent[n] # rb.root

(* C3: after every insert_rb call every path from the root down to a None
   child position holds the same number of BLACK nodes. *)
C3_RbBlackHeight ==
    Cardinality(BlackCounts(rb, rb.root, Len(rb.key))) = 1

(* C3 witness: a tree of eight nodes, its root replaced by a rotation, with
   two BLACK nodes on every path and a BLACK node below the root that has a
   RED child. *)
C3_Witness ==
    /\ Len(rb.key) = 8
    /\ rb.root # 1
    /\ BlackCounts(rb, rb.root, Len(rb.key)) = {2}
    /\ \E n \in RbNodes :
         /\ n # rb.root
         /\ rb.color[n] = BLACK
         /\ rb.left[n] # 0
         /\ rb.color[rb.left[n]] = RED

(* The depths of the leaves below node, node itself being at depth d. *)
RECURSIVE BtLeafDepths(_, _)
BtLeafDepths(node, d) ==
    IF node.leaf THEN {d}
    ELSE UNION {BtLeafDepths(node.children[i], d + 1) : i \in 1..Len(node.children)}

(* The nodes strictly below node. *)
RECURSIVE BtDescendants(_)
BtDescendants(node) ==
    IF node.leaf THEN {}
    ELSE UNION {{node.children[i]} \cup BtDescendants(node.children[i]) :
                  i \in 1..Len(node.children)}

(* C4: for every t >= 2, after every btree_insert call all leaves are at the
   same depth, every node other than the root holds between t-1 and 2t-1 keys
   and the root holds between 1 and 2t-1 keys. *)
C4_BtLeafDepthAndKeyCounts ==
    bt_root # None =>
        /\ Cardinality(BtLeafDepths(bt_root, 0)) = 1
        /\ Len(bt_root.keys) >= 1
        /\ Len(bt_root.keys) <= 2 * bt_t - 1
        /\ \A n \in BtDescendants(bt_root) :
             /\ Len(n.keys) >= bt_t - 1
             /\ Len(n.keys) <= 2 * bt_t - 1

(* C4 witness: a tree of minimum degree 2 that grew to three levels, with an
   inner node below the root. *)
C4_Witness ==
    /\ bt_t = 2
    /\ bt_root # None
    /\ BtLeafDepths(bt_root, 0) = {2}
    /\ \E n \in BtDescendants(bt_root) : ~n.leaf

BtDistinct == \A k \in BtKeys : bt_inserted[k] <= 1

(* C11: for every t >= 2, after every btree_insert call inorder_traverse
   lists every inserted key as many times as it was inserted and nothing
   else, in non-decreasing order, strictly ascending when the keys are
   distinct. *)
C11_BtInorderSortedBag ==
    LET arr == inorder_traverse(bt_root, <<>>)
    IN /\ NonDecreasing(arr)
       /\ Len(arr) = BagSize(bt_inserted)
       /\ \A k \in BtKeys : CountIn(arr, k) = bt_inserted[k]
       /\ BtDistinct => StrictlyAscending(arr)

(* C11 witness: a tree of minimum degree 2 with three levels that holds a
   repeated key, every key of the range being present. *)
C11_Witness ==
    /\ bt_t = 2
    /\ bt_root # None
    /\ BtLeafDepths(bt_root, 0) = {2}
    /\ \A k \in BtKeys : bt_inserted[k] >= 1
    /\ \E k \in BtKeys : bt_inserted[k] >= 2
    /\ Len(inorder_traverse(bt_root, <<>>)) >= 7

(* C12: for every t >= 2 and every key k, btree_search(root, k) is True
   exactly when k is one of the inserted keys; on the empty tree (None) it is
   False. *)
C12_BtSearchIffInserted ==
    \A k \in BtProbes :
        btree_search(bt_root, k) <=> (k \in BtKeys /\ bt_inserted[k] >= 1)

(* C12 witness: a three-level tree in which a search hits a key stored in a
   leaf, hits a key stored in the root and misses a key of the range that was
   never inserted. *)
C12_Witness ==
    /\ bt_t = 2
    /\ bt_root # None
    /\ BtLeafDepths(bt_root, 0) = {2}
    /\ btree_search(bt_root, bt_root.keys[1])
    /\ \E n \in BtDescendants(bt_root) :
         n.leaf /\ btree_search(bt_root, n.keys[1])
    /\ \E k \in BtKeys : bt_inserted[k] = 0 /\ ~btree_search(bt_root, k)

(* Height of a B-tree: the number of levels on the way to the leftmost leaf. *)
RECURSIVE BtHeight(_)
BtHeight(node) ==
    IF node = None THEN 0
    ELSE IF node.leaf THEN 1
    ELSE 1 + BtHeight(node.children[1])

(* A btree_insert call on a non-empty tree. *)
C21_InsertStep ==
    (bt_root # None /\ bt_inserted' # bt_inserted) =>
        /\ BtHeight(bt_root') =
             IF Len(bt_root.keys) = 2 * bt_t - 1 THEN BtHeight(bt_root) + 1
                                                ELSE BtHeight(bt_root)
        /\ Cardinality(BtLeafDepths(bt_root', 0)) = 1
        /\ BtLeafDepths(bt_root', 0) = {BtHeight(bt_root') - 1}

(* C21: for t >= 2, a btree_insert call on a non-empty B-tree makes the tree
   one level higher when the root held 2t-1 keys before the call and leaves
   the height as it was in every other case; all leaves stay at one depth. *)
C21_BtHeightGrowsAtFullRoot == [][C21_InsertStep]_vars

(* C21 witness: a tree of minimum degree 3 right after its first root split:
   six keys, a root with one key over two leaves. *)
C21_Witness ==
    /\ bt_t = 3
    /\ BagSize(bt_inserted) = 6
    /\ bt_root # None
    /\ Len(bt_root.keys) = 1
    /\ BtLeafDepths(bt_root, 0) = {1}

(* C5: after every insert_treap call, whatever priorities were drawn (equal
   ones included), every node's priority is greater than or equal to the
   priority of each of its children. *)
C5_TreapMaxHeap ==
    \A n \in Subtrees(treap_root) :
        /\ n.left # None => n.priority >= n.left.priority
        /\ n.right # None => n.priority >= n.right.priority

(* C5 witness: five nodes, a rotation has fired, the root has two children and
   shares its priority with one of them. *)
C5_Witness ==
    /\ treap_hist.n = 5
    /\ treap_hist.rotated
    /\ treap_root.left # None
    /\ treap_root.right # None
    /\ treap_root.left.priority = treap_root.priority
    /\ Height(treap_root) >= 3

(* seq is the sorted list of the bag: non-decreasing, one entry per insert,
   every key as often as the bag counts it. *)
IsSortedListOf(seq, bag) ==
    /\ NonDecreasing(seq)
    /\ Len(seq) = BagSize(bag)
    /\ \A k \in DOMAIN bag : CountIn(seq, k) = bag[k]
    /\ (\A k \in DOMAIN bag : bag[k] <= 1) => StrictlyAscending(seq)

(* C15: after any sequence of insert_avl, of insert_rb, of insert_treap (any
   priorities) or of insert_sizebst (ratio 2.0) calls, the in-order traversal
   of the returned tree is the sorted list of all inserted keys, each as
   often as it was inserted, strictly ascending when the keys are distinct. *)
C15_RebalancingKeepsKeys ==
    /\ IsSortedListOf(InOrder(avl_root), avl_inserted)
    /\ IsSortedListOf(ArenaInOrder(rb, rb.root, Len(rb.key)), rb_hist.inserted)
    /\ IsSortedListOf(InOrder(treap_root), treap_hist.inserted)
    /\ sb_ratio = SbDefaultRatio => IsSortedListOf(InOrder(sb_root), sb_inserted)

(* C15 witness: an AVL tree of six keys, one of them repeated, whose last
   insert rotated. *)
C15_Witness ==
    /\ BagSize(avl_inserted) = 6
    /\ \E k \in AvlKeys : avl_inserted[k] >= 2
    /\ avl_last.rotated
    /\ Len(InOrder(avl_root)) = 6

T23Distinct == \A k \in T23Keys : t23_inserted[k] <= 1

(* The nodes of a 2-3 tree, node itself included. *)
RECURSIVE T23Nodes(_)
T23Nodes(node) ==
    {node} \cup UNION {T23Nodes(node.children[i]) : i \in 1..Len(node.children)}

(* C18: for every sequence of pairwise distinct keys inserted with insert_23
   from the empty tree, inorder lists exactly the inserted keys, each once,
   in ascending order. *)
C18_Two3InorderDistinct ==
    (~t23_failed /\ T23Distinct) =>
        inorder(t23_root, <<>>) = SortedKeys({k \in T23Keys : t23_inserted[k] = 1})

(* C19: after every insert_23 call every node of the 2-3 tree, the root
   included, holds 1 or 2 keys, and every non-leaf node has one more child
   than it has keys. *)
C19_Two3NodeShape ==
    (~t23_failed /\ t23_root # None) =>
        \A n \in T23Nodes(t23_root) :
            /\ Len(n.keys) \in {1, 2}
            /\ ~n.leaf => Len(n.children) = Len(n.keys) + 1

(* C6: with ratio = 2.0, after every insert_sizebst call every node has
   size(left) <= 2 * size(right) and size(right) <= 2 * size(left), an absent
   subtree counting 0. *)
C6_SizeBalancedRatio2 ==
    sb_ratio = SbDefaultRatio =>
        \A n \in Subtrees(sb_root) :
            /\ Size(n.left) <= 2 * Size(n.right)
            /\ Size(n.right) <= 2 * Size(n.left)

(* C9: the node insert_splay(root, k) returns has key k and no parent, and for
   a key k present in the tree so has the node search_splay(root, k) returns. *)
C9_SplayAccessedAtRoot ==
    (splay_last.op = "insert" \/ (splay_last.op = "search" /\ splay_last.hit))
        => /\ splay_tree.root # 0
           /\ splay_tree.key[splay_tree.root] = splay_last.key
           /\ splay_tree.parent[splay_tree.root] = 0

(* C9 witness: four keys inserted in ascending order leave the smallest three
   links below the root; a search for it has brought it to the root. *)
C9_Witness ==
    /\ splay_last.op = "search" /\ splay_last.key = 1 /\ splay_last.hit
    /\ splay_tree.key = <<1, 2, 3, 4>>
    /\ splay_tree.root = 1
    /\ splay_tree.parent[1] = 0
    /\ splay_tree.parent[4] # 0


(* Every node's priority is at most the priority of each of its children. *)
PqMinHeap(root) ==
    \A n \in Subtrees(root) :
        /\ n.left # None => n.priority <= n.left.priority
        /\ n.right # None => n.priority <= n.right.priority

(* An extract_min call. *)
C22_ExtractStep ==
    pq_last'.op = "extract_min" =>
        IF pq_root = None
          THEN pq_root' = None /\ pq_last'.key = NoKey
          ELSE /\ pq_last'.key = treap_inorder(pq_root)[1]
               /\ \A n \in Subtrees(pq_root) : pq_last'.key <= n.key
               /\ treap_inorder(pq_root') = Tail(treap_inorder(pq_root))

(* C22: extract_min(root) returns the smallest key stored in the treap and a
   tree whose in-order sequence is the previous in-order sequence without its
   first element, whatever treap_insert and extract_min calls (any priorities,
   repeated keys) built the treap; on the empty tree it returns (None, None). *)
C22_ExtractMinTakesSmallest == [][C22_ExtractStep]_vars

(* C22 witness: an extract_min call that rotated the minimum up from below
   the root and left three keys in the queue. *)
C22_Witness ==
    /\ pq_last.op = "extract_min"
    /\ pq_last.rotated
    /\ pq_last.key # NoKey
    /\ Size(pq_root) = PqMaxNodes - 1

(* C23: after any interleaving of treap_insert and extract_min calls every
   node's priority is less than or equal to the priority of each of its
   children. *)
C23_PqMinHeapOrder == PqMinHeap(pq_root)

(* C23 witness: after an extract_min call that rotated the minimum to the
   root, a tree of height 3 with two distinct priorities on a parent and its
   child. *)
C23_Witness ==
    /\ pq_last.op = "extract_min"
    /\ pq_last.rotated
    /\ Height(pq_root) >= 3
    /\ \E n \in Subtrees(pq_root) : n.left # None /\ n.priority < n.left.priority


(* Keys never decrease along the in-order sequence. *)
PqBSTOrdered(root) == NonDecreasing(treap_inorder(root))

(* What C24 asks of the two arguments. *)
MgOrderedArguments ==
    /\ PqBSTOrdered(mg_left) /\ PqMinHeap(mg_left)
    /\ PqBSTOrdered(mg_right) /\ PqMinHeap(mg_right)
    /\ \A a \in Subtrees(mg_left), b \in Subtrees(mg_right) : a.key < b.key

(* C24: for two BST-ordered and min-heap-ordered treaps L and R with every key
   of L smaller than every key of R, merge_treap(L, R) returns a tree whose
   in-order sequence is that of L followed by that of R and whose nodes have
   priorities at most those of their children; merge_treap(None, R) is R and
   merge_treap(L, None) is L. *)
C24_MergeTreap ==
    mg_out.merged =>
        /\ MgOrderedArguments =>
             /\ treap_inorder(mg_out.root) = treap_inorder(mg_left) \o treap_inorder(mg_right)
             /\ PqMinHeap(mg_out.root)
        /\ mg_left = None => mg_out.root = mg_right
        /\ mg_right = None => mg_out.root = mg_left

(* C24 witness: a merge of two ordered treaps in which the right root won and
   the left root, below it, took over the right root's left subtree. *)
C24_Witness ==
    /\ mg_out.merged
    /\ MgOrderedArguments
    /\ mg_left # None /\ mg_right # None
    /\ mg_out.root.key = mg_right.key
    /\ mg_out.root.left # None
    /\ mg_out.root.left.key = mg_left.key
    /\ Size(mg_out.root.left) > Size(mg_left)


(* C25: for any interleaving of insert_splay and search_splay calls, each
   given the root the previous call returned, the in-order traversal from the
   returned root is the sorted (non-decreasing) list of all keys inserted so
   far (every insert_splay call allocates a node, so the arena's key list
   holds them), and a search_splay call, hit or miss, leaves the in-order
   sequence as it was before the call. *)
C25_SplayKeepsInOrder ==
    LET after == SplayInOrder(splay_tree)
    IN /\ NonDecreasing(after)
       /\ Len(after) = Len(splay_tree.key)
       /\ \A k \in SplayKeys : CountIn(after, k) = CountIn(splay_tree.key, k)
       /\ splay_last.op = "search" => after = splay_last.before

(* C25 witness: a search that missed has brought a node that was not the root
   to the root of a tree of four nodes, one key stored twice. *)
C25_Witness ==
    /\ splay_last.op = "search" /\ ~splay_last.hit
    /\ Len(splay_tree.key) = SplayMaxInserts
    /\ \E k \in SplayKeys : CountIn(splay_tree.key, k) = 2
    /\ splay_tree.root # SplayMaxInserts


(* The keys stored in the splay tree. *)
SplayStored(T) == SeqToSet(T.key)

(* k is the largest stored key below key or the smallest stored key above it. *)
SplayNeighbour(T, k, key) ==
    /\ k \in SplayStored(T)
    /\ \/ k < key /\ \A j \in SplayStored(T) : j < key => j <= k
       \/ k > key /\ \A j \in SplayStored(T) : j > key => k <= j

(* C26: search_splay(root, k) for a key k that is not in the tree returns, on
   a non-empty tree, a node without parent whose key is the in-order
   predecessor or successor of k among the stored keys (the last node of the
   search path, splayed to the root), and None on the empty tree. *)
C26_SearchMissSplaysNeighbour ==
    (splay_last.op = "search" /\ ~splay_last.hit) =>
        IF splay_tree.key = <<>>
          THEN splay_tree.root = 0
          ELSE /\ splay_tree.root # 0
               /\ splay_tree.parent[splay_tree.root] = 0
               /\ SplayNeighbour(splay_tree, splay_tree.key[splay_tree.root],
                                 splay_last.key)

(* C26 witness: a search for 3 in a tree that holds 1, 2 and 4 and more than
   three nodes has missed and returned the node of a neighbouring key. *)
C26_Witness ==
    /\ splay_last.op = "search" /\ splay_last.key = 3 /\ ~splay_last.hit
    /\ SplayStored(splay_tree) = {1, 2, 4}
    /\ Len(splay_tree.key) > 3
    /\ splay_tree.root # 0
    /\ splay_tree.key[splay_tree.root] \in {2, 4}


(* C27: every split_2node call made while insert_23 runs is made on a child
   that holds exactly 3 keys, so insert_23 never fails with an index error. *)
C27_Two3NoIndexError == ~t23_failed


(* C28: after every insert_sizebst call, for any ratio and any sequence of
   keys, every node's size field equals 1 + size(left) + size(right), which is
   the true number of nodes of its subtree, also for nodes that rotations
   moved; the root's size is the number of inserts performed. *)
C28_SizeFieldsExact ==
    /\ \A n \in Subtrees(sb_root) :
           /\ n.size = 1 + get_size(n.left) + get_size(n.right)
           /\ n.size = Size(n)
    /\ get_size(sb_root) = BagSize(sb_inserted)

(* C28 witness: with ratio 1.5 and SbMaxInserts keys inserted, a node has an
   equal key at the top of its left subtree, over further nodes; equal keys
   are placed to the right, so a rotation has moved these nodes. *)
C28_Witness ==
    /\ sb_ratio = [num |-> 3, den |-> 2]
    /\ BagSize(sb_inserted) = SbMaxInserts
    /\ \E n \in Subtrees(sb_root) :
           /\ n.left # None /\ n.right # None
           /\ n.left.key = n.key
           /\ n.left.size >= 3


(* C29: after every insert_rb call the returned root has parent None, every
   existing child c of a node n has c.parent = n, every node other than the
   root is the left or the right child of its parent, and the links form one
   tree: every node is reached from the root and no node is reached twice. *)
C29_RbLinksAgree ==
    LET N == 1..Len(rb.key)
    IN /\ rb.root = 0 <=> N = {}
       /\ rb.root # 0 => rb.parent[rb.root] = 0
       /\ \A n \in N :
            /\ rb.left[n] # 0 => rb.parent[rb.left[n]] = n
            /\ rb.right[n] # 0 => rb.parent[rb.right[n]] = n
            /\ rb.left[n] # 0 => rb.left[n] # rb.right[n]
            /\ n # rb.root =>
                 /\ rb.parent[n] # 0
                 /\ (rb.left[rb.parent[n]] = n) # (rb.right[rb.parent[n]] = n)
       /\ RbNodes = N
       /\ Len(ArenaInOrder(rb, rb.root, Len(rb.key))) = Len(rb.key)

(* C29 witness: RbMaxInserts nodes, and below the root a node whose parent was
   allocated after it and which has a child of its own: new nodes are hung
   under older ones, so a rotation has put the younger node on top and
   re-pointed the link of the node above. *)
C29_Witness ==
    /\ Len(rb.key) = RbMaxInserts
    /\ \E n \in RbNodes :
         /\ rb.parent[n] > n
         /\ rb.parent[n] # rb.root
         /\ rb.left[n] # 0
         /\ rb.right[rb.parent[n]] # 0


(* After an iteration of the loop of splay(x): x is nearer to the top than it
   was before the iteration, by 1 link after a zig step and by 2 otherwise. *)
C30_IterationClimbs ==
    (splay_x # 0 /\ splay_run.step # "none") =>
        /\ SplayDepth(splay_tree, splay_x) < splay_run.depth
        /\ SplayDepth(splay_tree, splay_x) =
             splay_run.depth - (IF splay_run.step = "zig" THEN 1 ELSE 2)

(* The loop of splay(x) has ended: x is at the top, over all other nodes. *)
C30_AtTop ==
    (splay_x # 0 /\ splay_tree.parent[splay_x] = 0) =>
        ArenaNodes(splay_tree, splay_x, Len(splay_tree.key)) = 1..Len(splay_tree.key)

(* C30: splay(x) terminates: every iteration of its loop brings x nearer to
   the top, by 1 link in a zig step and by 2 in a zig-zig or zig-zag step, a
   running call always gets to return, and when the loop ends x has no parent
   and every other node of the tree is below x. *)
C30_SplayTerminates ==
    /\ [](C30_IterationClimbs /\ C30_AtTop)
    /\ (splay_x # 0) ~> (splay_x = 0)

(* C30 witness: the loop of a splay call has ended after a zig step, with x
   above three other nodes: x began at an odd depth of at least one. *)
C30_Witness ==
    /\ splay_x # 0
    /\ splay_tree.parent[splay_x] = 0
    /\ splay_run.step = "zig"
    /\ Len(splay_tree.key) = SplayLoopMaxInserts
    /\ splay_tree.left[splay_x] # 0 /\ splay_tree.right[splay_x] # 0

====
